---- MODULE Spec2Model ----
(***************************************************************************)
(* Publish scheduler, chat commands and posts store of the blog plugin     *)
(* (src/scheduler.py, src/publish_command.py) and the comment monitor      *)
(* (src/monitor.py).                                                       *)
(*                                                                         *)
(* All coroutines run on one asyncio event loop: a coroutine runs without  *)
(* interruption from one await to the next.  Each action below is one such *)
(* uninterrupted stretch of code, or one iteration of a synchronous loop;  *)
(* while the scheduler is inside a synchronous stretch (SchedBusy) no      *)
(* other coroutine takes a step.                                           *)
(***************************************************************************)
EXTENDS Integers, Sequences, FiniteSets, TLC

(* ---------------------------------------------------------------- bounds *)
MaxDay == 2
MaxPosts == 3
NumCmds == 1
MaxTime == 3
NumIds == 2
MaxFetch == 2
MaxFail == 1
CacheTtl == 1
CacheSize == 1
MaxQueue == 2
MaxLines == 3
\* blog_api.retry_times goes up to this.
MaxRetry == 2
\* The failed poll cycles in a row that the loop of the monitor is followed
\* through when it is looked at alone.
MaxFailures == 6
\* How many background tasks start() creates for one loop at most.
MaxStarts == 2
\* `if self._consecutive_failures >= 5`
CooldownAfter == 5

(* -------------------------------------------------- strings and the clock *)
\* Characters are their code points: '0'..'9' are 48..57 and ':' is 58.
Zero == 48
Colon == 58

\* strftime("%H:%M") of a minute of the day.
StrfHM(m) ==
    << Zero + ((m \div 60) \div 10), Zero + ((m \div 60) % 10), Colon,
       Zero + ((m % 60) \div 10), Zero + ((m % 60) % 10) >>

\* A plausible slip: a > b, so that a task waits for the minute after its own.
RECURSIVE StrGT(_, _)
StrGT(a, b) ==
    IF a = << >> THEN FALSE
    ELSE IF b = << >> THEN TRUE
    ELSE IF Head(a) # Head(b) THEN Head(a) > Head(b)
    ELSE StrGT(Tail(a), Tail(b))

\* Python's a >= b on strings: code point by code point, a proper prefix is smaller.
RECURSIVE StrGE(_, _)
StrGE(a, b) ==
    IF b = << >> THEN TRUE
    ELSE IF a = << >> THEN FALSE
    ELSE IF Head(a) # Head(b) THEN Head(a) > Head(b)
    ELSE StrGE(Tail(a), Tail(b))

\* The minutes of the day at which the clock is observed: 07:59, 08:05, 23:45.
PollMinutes == {479, 485, 1425}

(* ------------------------------------------------------- configuration *)
\* schedule.tasks: the default list of src/plugin.py, and an entry without "time".
Tasks ==
    << [time |-> << 48, 56, 58, 48, 48 >>, type |-> "topic", topic |-> "morning"],
       [time |-> << 50, 51, 58, 51, 48 >>, type |-> "summary", topic |-> ""],
       [time |-> << >>, type |-> "summary", topic |-> ""] >>

TaskIdx == 1..Len(Tasks)

\* _generate_task_id: md5 of "type-time-topic"; the digest is taken to be
\* collision free, so the id is the hashed text itself.
GenerateTaskId(task) == << task.type, task.time, task.topic >>

TaskIds == {GenerateTaskId(Tasks[i]) : i \in TaskIdx}

NoDate == 0
Days == 1..MaxDay

(* ---------------------------------------------------------- posts store *)
\* A stored post: its id and the path that wrote it.
Writers == {"blog", "scheduler", "publish", "generate"}
Post(id, by) == [id |-> id, by |-> by]

\* posts.json when the plugin starts (the file is shared with the blog server).
InitialStores == { << >>, << Post(3, "blog") >> }

\* max([_safe_int(str(x.get("id", 0))) for x in posts], default=0)
RECURSIVE MaxId(_)
MaxId(posts) ==
    IF posts = << >> THEN 0
    ELSE IF Len(posts) = 1 THEN posts[1].id
    ELSE IF posts[1].id >= MaxId(Tail(posts)) THEN posts[1].id
    ELSE MaxId(Tail(posts))

\* A plausible slip: the next id taken from the number of posts.
NewIdByCount(posts) == Len(posts) + 1

\* new_id = max_id + 1
NewId(posts) == MaxId(posts) + 1

\* A plausible slip: the file is rewritten with the new post alone.
AppendPostOverwriting(posts, by) == << Post(NewId(posts), by) >>

\* posts.append(new_post)
AppendPost(posts, by) == Append(posts, Post(NewId(posts), by))

(* ------------------------------------------------------ remote publisher *)
\* What the POST to /api/v1/posts can come back with.
\* data.id of the answer: a number, or one of two codes, NoId for an answer
\* without data.id and TextId for an id that is not a number (a slug, a UUID).
NoId == -1
TextId == -2
RemoteResponses ==
    { [kind |-> "transport_error", id |-> NoId],
      [kind |-> "http_error", id |-> NoId],
      [kind |-> "code_nonzero", id |-> NoId],
      [kind |-> "ok", id |-> NoId],
      [kind |-> "ok", id |-> TextId],
      [kind |-> "ok", id |-> 0],
      [kind |-> "ok", id |-> 7] }

\* A plausible slip: the HTTP status is not looked at.
PublishRemoteIgnoringStatus(resp) ==
    IF resp.kind = "transport_error" THEN NoId
    ELSE IF resp.kind = "code_nonzero" THEN NoId
    ELSE IF resp.kind = "http_error" THEN 7
    ELSE IF resp.id = TextId THEN NoId
    ELSE resp.id

\* _publish_remote: the id of the created post, or None (NoId).  int() of an
\* id that is not a number raises, which the function catches.
PublishRemote(resp) ==
    IF resp.kind = "transport_error" THEN NoId
    ELSE IF resp.kind = "http_error" THEN NoId
    ELSE IF resp.kind = "code_nonzero" THEN NoId
    ELSE IF resp.id = TextId THEN NoId
    ELSE resp.id

\* `if remote_id:` in the callers: None and 0 are both false.
RemoteIdTruthy(remote_id) == remote_id # NoId /\ remote_id # 0

\* The remote blog created the post: code 0 with a data.id.
RemoteAccepted(resp) == resp.kind = "ok" /\ resp.id # NoId

(* ------------------------------------------------------ comment monitor *)
\* The plugin's configuration: the defaults, and the switches turned one at a
\* time.  enable stands for plugin.enable and monitor.enable_monitor.
DefaultConfig ==
    [enable |-> TRUE, enable_dedup |-> TRUE, enable_reply |-> TRUE,
     enable_review |-> FALSE, max_replies |-> 1, initial_since |-> 0]

MonConfigs ==
    { DefaultConfig,
      [DefaultConfig EXCEPT !.max_replies = 2],
      [DefaultConfig EXCEPT !.max_replies = 2, !.enable_dedup = FALSE],
      [DefaultConfig EXCEPT !.enable_review = TRUE],
      [DefaultConfig EXCEPT !.enable_reply = FALSE],
      [DefaultConfig EXCEPT !.enable = FALSE],
      [DefaultConfig EXCEPT !.initial_since = 1] }

\* security.forbidden_words, security.allowed_post_ids, security.blocked_visitor_names
ForbiddenWords == {"spam"}
AllowedPostIds == {1}
BlockedNames == {"bob"}

\* A pending comment as the blog API returns it; content is the set of the
\* words in it, created_at = 0 is a missing or unparsable time.
Plain(i, t) ==
    [id |-> i, created_at |-> t, content |-> {"hi"}, post_id |-> 1, visitor_name |-> "ann"]

CommentPool ==
    {Plain(i, i) : i \in 1..NumIds}
    \cup { Plain(1, 0),
           [Plain(1, 1) EXCEPT !.content = {"hi", "spam"}],
           [Plain(1, 1) EXCEPT !.post_id = 9],
           [Plain(1, 1) EXCEPT !.visitor_name = "bob"] }

NoComment == Plain(0, 0)

\* What _fetch_comments can return: [] (nothing pending, or the call failed)
\* or a list of up to MaxFetch comments of the pool, repeats included.  The
\* loop reads the list once, front to back, so the model keeps its length and
\* draws each comment when the loop reaches it.
FetchLengths == 0..MaxFetch

VARIABLES
    cfg,            \* configuration: schedule.enabled, blog_api.url set
    now_day,        \* local date
    now_min,        \* local minute of the day
    status_file,    \* schedule_status.json: task id -> last run date
    posts,          \* posts.json
    is_running,     \* BlogPublishScheduler.is_running
    sched_pc,       \* where _schedule_loop is
    sched_idx,      \* index of `task` in the for loop
    status,         \* the poll's local `status`
    status_changed, \* the poll's local `status_changed`
    cur_date,       \* the poll's current_date_str
    cur_min,        \* the minute current_time_str was formatted from
    cmd,            \* the chat commands in flight
    executed,       \* history: per task, the date it last ran on, how often
                    \* _execute_task was called for it on that date and how many
                    \* of these calls returned (2: twice or more); NoRuns
                    \* where no such history is kept
    poll_start,     \* history: status as loaded at the start of the poll
    last_poll,      \* history: the poll that ended in the last step, if any
    last_pub,       \* history: the publish that ended in the last step, if any
    mcfg,                 \* the comment monitor's configuration
    mon_now,              \* time.time()
    running,              \* CommentMonitor._running
    mon_pc,               \* where _loop is
    last_since,           \* CommentMonitor._last_since
    processed_cache,      \* _processed_cache, in the dict's insertion order
    processed_counts,     \* _processed_counts (0: no entry)
    consecutive_failures, \* CommentMonitor._consecutive_failures
    failed_cycles,        \* history: the poll cycles that raised since the last
                          \* one that returned
    mon_left,             \* how many of the cycle's `comments` the loop has not reached
    mon_comment,          \* the cycle's `comment` while its reply is awaited or just after it was marked
    max_created_ts,       \* the cycle's local max_created_ts
    mon_last,             \* history: what the last step was, if it ended a cycle
                          \* ("returned", "raised"), skipped a comment ("dedup",
                          \* "filtered", "capped") or ended a generation or a submit
    watched,              \* history: the comment id whose replies are counted
                          \* (0: none is)
    posted,               \* history: how many replies were POSTed for `watched`
    cycle_log             \* history: what the poll cycle under way has fetched
                          \* and answered so far, and what the cycle before it
                          \* had answered when it raised; NoLog where no such
                          \* history is kept

VARIABLES
    queue_file,     \* scheduled_posts.json: the text in it, token by token
    max_posts,      \* schedule.max_posts_per_run
    q_pc,           \* where _process_queue_task is
    q_queue,        \* the run's `queue`
    q_idx,          \* index of `item` in the for loop
    q_remaining,    \* the run's `remaining`
    q_count,        \* the run's `published_count`
    q_now,          \* the run's `now`: << date, minute of the day >>
    q_start,        \* history: the queue file when the run began
    q_made,         \* history: the items of `queue` a post was made for in the run
    q_done,         \* history: the items _publish_content returned True for
    q_last          \* history: how the last run ended, if one did

VARIABLES
    fn_in,          \* the arguments of a call of one of the helper functions
    fn_out          \* what the call returned, once it has

VARIABLES
    loop_tasks,     \* the background tasks start() has created for each of the
                    \* two loops, the ones a stop() is awaiting, and the last
                    \* thing that was done to one of them
    admin,          \* the [admin] section of the plugin configuration
    cmd_msg         \* history: the chat message a command was just invoked
                    \* by, and what execute() did with it up to its first
                    \* await on the generator or the blog API

sched_vars == << cfg, now_day, now_min, status_file, posts, is_running, sched_pc,
                 sched_idx, status, status_changed, cur_date, cur_min, cmd,
                 executed, poll_start, last_poll, last_pub >>

mon_vars == << mcfg, mon_now, running, mon_pc, last_since, processed_cache,
               processed_counts, consecutive_failures, failed_cycles, mon_left,
               mon_comment, max_created_ts, mon_last, watched, posted, cycle_log >>

queue_vars == << queue_file, max_posts, q_pc, q_queue, q_idx, q_remaining, q_count,
                 q_now, q_start, q_made, q_done, q_last >>

pure_vars == << fn_in, fn_out >>

AdminQQs == {"10001"}
Users == {"10001", "20002"}

\* went: "denied", "gen" (the generator was called), "remote" (the POST was
\* issued), "local" (posts.json was written) or "raised"; sent: the chat
\* messages sent by send_text; deletion: _delete_cmd_message was called.
Msg(user, group, kind, went, sent, deletion) ==
    [user |-> user, group |-> group, kind |-> kind, went |-> went,
     sent |-> sent, deletion |-> deletion]
NoMsg == Msg("", FALSE, "none", "none", 0, FALSE)
ChatQuiet == cmd_msg' = NoMsg /\ UNCHANGED admin

\* The two polling loops, and no task created for either.
Components == {"monitor", "scheduler"}
NoTasks == [made |-> [c \in Components |-> << >>],
            awaited |-> [c \in Components |-> {}],
            last |-> << "none", "none" >>]

NoCall == [fn |-> "none"]
NoResult == [done |-> FALSE]

chat_vars == << admin, cmd_msg >>

vars == << sched_vars, mon_vars, queue_vars, pure_vars, chat_vars, loop_tasks >>

sched_local == << sched_idx, status, status_changed, cur_date, cur_min, poll_start >>

NoStatus == [id \in TaskIds |-> NoDate]
NoPub == [who |-> "none", resp |-> [kind |-> "none", id |-> NoId], before |-> << >>,
          appended |-> FALSE, ok |-> FALSE]
NoPoll == [date |-> NoDate, min |-> 0]

CmdIdle == [pc |-> "idle", kind |-> "none", result |-> "none"]

\* Everything but the clock, as the plugin's constructor leaves it.
Built ==
    /\ cfg \in [enabled : BOOLEAN, api_url : BOOLEAN]
    /\ status_file = NoStatus
    /\ posts \in InitialStores
    /\ is_running = FALSE
    /\ sched_pc = "stopped"
    /\ sched_idx = 0
    /\ status = NoStatus
    /\ status_changed = FALSE
    /\ cur_date = NoDate
    /\ cur_min = 0
    /\ cmd = [k \in 1..NumCmds |-> CmdIdle]
    /\ poll_start = NoStatus
    /\ last_poll = NoPoll
    /\ last_pub = NoPub

\* The history of the runs of the tasks: none yet, or none kept.
NoRuns == << >>
FirstRuns == [i \in TaskIdx |-> [date |-> NoDate, n |-> 0, returned |-> 0]]

Constructed == Built /\ executed = FirstRuns

\* The history of the poll cycles, with the fields that are kept of: seen,
\* the created_at of each comment the loop has come to in the cycle under way,
\* with the clock at that time where the comment has none; replied, the ids of
\* the comments a reply was POSTed for in it; owed, the ids the cycle before
\* it had answered when it raised.
NoLog == << >>
SeenLog == [seen |-> {}]
ReplyLog == [replied |-> {}, owed |-> {}]

Keeps(log, field) == field \in DOMAIN log

\* `for comment in comments:` comes to a comment.
LogSeen(log, comment, now) ==
    IF Keeps(log, "seen")
    THEN [log EXCEPT !.seen = @ \cup {<< comment.created_at,
                                         IF comment.created_at = 0 THEN now ELSE 0 >>}]
    ELSE log

\* _submit_reply returned True for comment `id`.
LogReplied(log, id) ==
    IF Keeps(log, "replied") THEN [log EXCEPT !.replied = @ \cup {id}] ELSE log

\* The cycle is over, and nothing is owed to the next one.
LogReturned(log) ==
    IF Keeps(log, "seen") THEN SeenLog
    ELSE IF Keeps(log, "replied") THEN ReplyLog
    ELSE log

\* _check_comments raised: what it had answered is owed to the next cycle.
LogRaised(log) ==
    IF Keeps(log, "replied") THEN [ReplyLog EXCEPT !.owed = log.replied]
    ELSE LogReturned(log)

\* The comment monitor as its constructor leaves it, before start().
MonConstructed ==
    /\ mon_now = 1
    /\ running = FALSE
    /\ mon_pc = "stopped"
    /\ last_since = 0
    /\ processed_cache = << >>
    /\ processed_counts = [i \in 1..NumIds |-> 0]
    /\ consecutive_failures = 0
    /\ failed_cycles = 0
    /\ mon_left = 0
    /\ mon_comment = NoComment
    /\ max_created_ts = 0
    /\ mon_last = "none"
    /\ posted = 0

\* The queue task before its first run, the queue file empty.
QueueIdle ==
    /\ q_pc = "idle"
    /\ q_queue = << >>
    /\ q_idx = 0
    /\ q_remaining = << >>
    /\ q_count = 0
    /\ q_now = << NoDate, 0 >>
    /\ q_start = << >>
    /\ q_made = {}
    /\ q_done = {}
    /\ q_last = "none"

NoQueue ==
    /\ queue_file = << >>
    /\ max_posts = 1
    /\ QueueIdle
    /\ fn_in = NoCall
    /\ fn_out = NoResult
    /\ admin = [admin_qqs |-> AdminQQs, silent |-> TRUE]
    /\ cmd_msg = NoMsg

\* The scheduler against the clock, from 07:59 on the first day.
Init ==
    /\ Constructed
    /\ mcfg = DefaultConfig
    /\ MonConstructed
    /\ watched = 0
    /\ cycle_log = NoLog
    /\ loop_tasks = NoTasks
    /\ NoQueue
    /\ now_day = 1
    /\ now_min = 479

\* Late on the first day, when every configured task is due: the scheduler as
\* constructed, and with it a history of the runs of the tasks or none.
LateWith(runs) ==
    /\ Built
    /\ executed = runs
    /\ mcfg = DefaultConfig
    /\ MonConstructed
    /\ watched = 0
    /\ cycle_log = NoLog
    /\ loop_tasks = NoTasks
    /\ NoQueue
    /\ now_day = 1
    /\ now_min = 1425

\* The scheduler and the chat commands publishing side by side; what is
\* looked at is the posts store, and no history of the runs is kept.
PubInit == LateWith(NoRuns)

\* The two loops of the plugin, the runs of the tasks remembered.
LateInit == LateWith(FirstRuns)


(* ------------------------------------------------------------ the clock *)
\* Local time moves forward: later the same day, or to the next day.
Tick ==
    /\ sched_pc # "tasks"
    /\ \E d \in Days, m \in PollMinutes :
        /\ \/ d = now_day /\ m > now_min
           \/ d = now_day + 1
        /\ now_day' = d
        /\ now_min' = m
    /\ last_poll' = NoPoll
    /\ last_pub' = NoPub
    /\ UNCHANGED << cfg, status_file, posts, is_running, sched_pc, sched_local,
                    cmd, executed >>
    /\ UNCHANGED << mon_vars, queue_vars, pure_vars, loop_tasks >>
    /\ ChatQuiet

(* -------------------------------------------------- local posts fallback *)
\* _load_posts, max id + 1, append, _save_posts: one synchronous stretch.
\* posts.json is taken to be readable, so _load_posts returns what it holds;
\* saved = FALSE is _save_posts raising before anything is written.
LocalPublish(store, by, saved) == IF saved THEN AppendPost(store, by) ELSE store

CanSave(saved) == saved => Len(posts) < MaxPosts

Pub(who, resp, saved, ok) ==
    [who |-> who, resp |-> resp, before |-> posts, appended |-> saved, ok |-> ok]

NoUrl == [kind |-> "no_url", id |-> NoId]

(* --------------------------------------------------- BlogPublishScheduler *)
SchedBusy == sched_pc = "tasks"

\* A plausible slip: the check of the last run date is left out.
NeverRanToday(st, task, date) == FALSE

\* `if last_run_date == current_date_str: continue`
AlreadyRanToday(st, task, date) == st[GenerateTaskId(task)] = date

\* `if current_time_str >= task_time`
TimeReached(min, task) == StrGE(StrfHM(min), task.time)

\* The for loop reaches `await self._execute_task(task)` for this task.
ShouldFire(st, task, date, min) ==
    /\ task.time # << >>
    /\ ~AlreadyRanToday(st, task, date)
    /\ TimeReached(min, task)

\* One more call of _execute_task on this date.
Called(e, date) ==
    IF e.date # date THEN [date |-> date, n |-> 1, returned |-> 0]
    ELSE [e EXCEPT !.n = 2]

\* One more of these calls returned without raising.
Returned(e) == [e EXCEPT !.returned = IF @ = 0 THEN 1 ELSE 2]

\* The history of task i, where one is kept.
NoteCalled(ex, i, date) ==
    IF ex = NoRuns THEN ex ELSE [ex EXCEPT ![i] = Called(@, date)]
NoteReturned(ex, i) ==
    IF ex = NoRuns THEN ex ELSE [ex EXCEPT ![i] = Returned(@)]

\* _execute_task goes on to generate a post (summary, or topic with a topic).
TaskGenerates(task) ==
    \/ task.type = "summary"
    \/ task.type = "topic" /\ task.topic # ""

\* `status[task_id] = current_date_str`
Recorded(st, task, date) == [st EXCEPT ![GenerateTaskId(task)] = date]

\* _execute_task returned: record the run and go on to the next task.
NextTaskRecorded(ex) ==
    /\ executed' = NoteReturned(ex, sched_idx)
    /\ status' = Recorded(status, Tasks[sched_idx], cur_date)
    /\ status_changed' = TRUE
    /\ sched_idx' = sched_idx + 1
    /\ sched_pc' = "tasks"
    /\ UNCHANGED << cur_date, cur_min, poll_start >>

\* _execute_task raised: logged, nothing recorded, next task.
NextTaskUnrecorded ==
    /\ sched_idx' = sched_idx + 1
    /\ sched_pc' = "tasks"
    /\ UNCHANGED << status, status_changed, cur_date, cur_min, poll_start >>

\* The poll's locals are gone once the poll is over.
ForgetLocals ==
    /\ sched_idx' = 0
    /\ status' = NoStatus
    /\ status_changed' = FALSE
    /\ cur_date' = NoDate
    /\ cur_min' = 0
    /\ poll_start' = NoStatus

\* start()
SchedStart ==
    /\ ~SchedBusy
    /\ ~is_running
    /\ IF cfg.enabled
       THEN /\ is_running' = TRUE
            /\ sched_pc' = "sleep"
       ELSE UNCHANGED << is_running, sched_pc >>
    /\ last_poll' = NoPoll
    /\ last_pub' = NoPub
    /\ UNCHANGED << cfg, now_day, now_min, status_file, posts, sched_local, cmd,
                    executed >>
    /\ UNCHANGED << mon_vars, queue_vars, pure_vars, loop_tasks >>
    /\ ChatQuiet

\* A plausible slip: a stop that only keeps the loop from waking up again,
\* and lets a call that is under way run on.
CancelledInSleep(pc) == IF pc \in {"sleep", "cooldown"} THEN "stopped" ELSE pc

\* `self.task.cancel()` and `await self.task`: CancelledError is raised in
\* the loop at the await it is suspended in, whichever that is, no handler on
\* its way catches it but the `break` of _schedule_loop, and the task is over
\* when stop() goes on.
Cancelled(pc) == "stopped"

\* stop(): the loop is cancelled at the await it is suspended in.
SchedStop ==
    /\ ~SchedBusy
    /\ is_running
    /\ is_running' = FALSE
    /\ sched_pc' = Cancelled(sched_pc)
    /\ ForgetLocals
    /\ last_poll' = NoPoll
    /\ last_pub' = NoPub
    /\ UNCHANGED << cfg, now_day, now_min, status_file, posts, cmd, executed >>
    /\ UNCHANGED << mon_vars, queue_vars, pure_vars, loop_tasks >>
    /\ ChatQuiet

\* _load_status
LoadStatus(file) == file

\* The sleep ends: read the clock, the tasks and the status file.
SchedPollBegin ==
    /\ sched_pc = "sleep"
    /\ is_running
    /\ cur_date' = now_day
    /\ cur_min' = now_min
    /\ status' = LoadStatus(status_file)
    /\ poll_start' = LoadStatus(status_file)
    /\ status_changed' = FALSE
    /\ sched_idx' = 1
    /\ sched_pc' = "tasks"
    /\ last_poll' = NoPoll
    /\ last_pub' = NoPub
    /\ UNCHANGED << cfg, now_day, now_min, status_file, posts, is_running, cmd,
                    executed >>
    /\ UNCHANGED << mon_vars, queue_vars, pure_vars, loop_tasks >>
    /\ ChatQuiet

\* One iteration of `for task in tasks` up to its first await.
SchedTask ==
    /\ sched_pc = "tasks"
    /\ sched_idx \in TaskIdx
    /\ LET task == Tasks[sched_idx] IN
       IF ~ShouldFire(status, task, cur_date, cur_min)
       THEN /\ sched_idx' = sched_idx + 1
            /\ UNCHANGED << sched_pc, status, status_changed, cur_date, cur_min,
                            poll_start, executed >>
       ELSE LET ex == NoteCalled(executed, sched_idx, cur_date) IN
            IF TaskGenerates(task)
            THEN /\ executed' = ex
                 /\ sched_pc' = "gen"
                 /\ UNCHANGED sched_local
            ELSE NextTaskRecorded(ex)
    /\ last_poll' = NoPoll
    /\ last_pub' = NoPub
    /\ UNCHANGED << cfg, now_day, now_min, status_file, posts, is_running, cmd >>
    /\ UNCHANGED << mon_vars, queue_vars, pure_vars, loop_tasks >>
    /\ ChatQuiet

\* generate_post_from_topic / generate_post_from_messages comes back.
SchedGenDone ==
    /\ sched_pc = "gen"
    /\ \E outcome \in {"raise", "none", "post"}, saved \in BOOLEAN :
        \/ /\ outcome = "raise"
           /\ saved
           /\ NextTaskUnrecorded
           /\ last_pub' = NoPub
           /\ UNCHANGED << posts, executed >>
        \/ /\ outcome = "none"
           /\ saved
           /\ NextTaskRecorded(executed)
           /\ last_pub' = NoPub
           /\ UNCHANGED posts
        \/ /\ outcome = "post"
           /\ cfg.api_url
           /\ saved
           /\ sched_pc' = "remote"
           /\ last_pub' = NoPub
           /\ UNCHANGED << sched_local, posts, executed >>
        \/ /\ outcome = "post"
           /\ ~cfg.api_url
           /\ CanSave(saved)
           /\ posts' = LocalPublish(posts, "scheduler", saved)
           /\ last_pub' = Pub("scheduler", NoUrl, saved, saved)
           /\ NextTaskRecorded(executed)
    /\ last_poll' = NoPoll
    /\ UNCHANGED << cfg, now_day, now_min, status_file, is_running, cmd >>
    /\ UNCHANGED << mon_vars, queue_vars, pure_vars, loop_tasks >>
    /\ ChatQuiet

\* _publish_remote comes back inside _publish_content.
SchedRemoteDone ==
    /\ sched_pc = "remote"
    /\ \E resp \in RemoteResponses, saved \in BOOLEAN :
        IF RemoteIdTruthy(PublishRemote(resp))
        THEN /\ saved
             /\ last_pub' = Pub("scheduler", resp, FALSE, TRUE)
             /\ UNCHANGED posts
        ELSE /\ CanSave(saved)
             /\ posts' = LocalPublish(posts, "scheduler", saved)
             /\ last_pub' = Pub("scheduler", resp, saved, saved)
    /\ NextTaskRecorded(executed)
    /\ last_poll' = NoPoll
    /\ UNCHANGED << cfg, now_day, now_min, status_file, is_running, cmd >>
    /\ UNCHANGED << mon_vars, queue_vars, pure_vars, loop_tasks >>
    /\ ChatQuiet

\* _save_status; written = FALSE is the write raising, caught by the loop.
SaveStatus(file, st, changed, written) == IF changed /\ written THEN st ELSE file

\* After the last task: save the status if it changed, then sleep.
SchedPollEnd ==
    /\ sched_pc = "tasks"
    /\ sched_idx > Len(Tasks)
    /\ \E written \in BOOLEAN :
        /\ ~status_changed => written
        /\ status_file' = SaveStatus(status_file, status, status_changed, written)
    /\ sched_pc' = "sleep"
    /\ last_poll' = [date |-> cur_date, min |-> cur_min]
    /\ last_pub' = NoPub
    /\ ForgetLocals
    /\ UNCHANGED << cfg, now_day, now_min, posts, is_running, cmd, executed >>
    /\ UNCHANGED << mon_vars, queue_vars, pure_vars, loop_tasks >>
    /\ ChatQuiet

SchedNext ==
    \/ SchedStart
    \/ SchedStop
    \/ SchedPollBegin
    \/ SchedTask
    \/ SchedGenDone
    \/ SchedRemoteDone
    \/ SchedPollEnd

(* --------------------------------------------------------- chat commands *)
\* `if admin_qqs and user_id not in admin_qqs`
Denied(admins, user) == admins # {} /\ user \notin admins

\* `if is_group_chat and silent_in_group`
SilentInAnyChat(is_group_chat, silent_in_group) == silent_in_group
Silent(is_group_chat, silent_in_group) == is_group_chat /\ silent_in_group

Done(kind, result) == [pc |-> "done", kind |-> kind, result |-> result]
Awaiting(kind, pc) == [pc |-> pc, kind |-> kind, result |-> "none"]

\* The command's own read-modify-write of posts.json after a failed remote
\* publish; _save_posts raising leaves execute() with the exception.
CmdLocal(k, kind, resp, saved) ==
    /\ CanSave(saved)
    /\ posts' = LocalPublish(posts, kind, saved)
    /\ last_pub' = Pub(kind, resp, saved, saved)
    /\ cmd' = [cmd EXCEPT ![k] = Done(kind, IF saved THEN "local" ELSE "raised")]

\* The command goes on without publishing anything in this step.
CmdGoes(k, to) ==
    /\ cmd' = [cmd EXCEPT ![k] = to]
    /\ last_pub' = NoPub
    /\ UNCHANGED posts

\* execute() up to its first await on the generator or the blog API.  The
\* awaits of send_text are not split off: send_text touches no state of the
\* plugin and execute() returns right after it.
CmdInvoke(k, chats) ==
    /\ ~SchedBusy
    /\ cmd[k].pc = "idle"
    /\ \E kind \in {"publish", "generate"}, user \in Users,
          group \in chats, saved \in BOOLEAN :
        IF Denied(admin.admin_qqs, user)
        THEN /\ saved
             /\ CmdGoes(k, Done(kind, "denied"))
             /\ cmd_msg' = Msg(user, group, kind, "denied",
                               IF Silent(group, admin.silent) THEN 0 ELSE 1,
                               FALSE)
        ELSE IF kind = "generate"
        THEN /\ saved
             /\ CmdGoes(k, Awaiting(kind, "gen"))
             /\ cmd_msg' = Msg(user, group, kind, "gen", 0, FALSE)
        ELSE IF cfg.api_url
        THEN /\ saved
             /\ CmdGoes(k, Awaiting(kind, "remote"))
             /\ cmd_msg' = Msg(user, group, kind, "remote", 0, FALSE)
        ELSE /\ CmdLocal(k, kind, NoUrl, saved)
             /\ cmd_msg' = IF saved
                            THEN Msg(user, group, kind, "local", 1, TRUE)
                            ELSE Msg(user, group, kind, "raised", 0, FALSE)
    /\ last_poll' = NoPoll
    /\ UNCHANGED << cfg, now_day, now_min, status_file, is_running, sched_pc,
                    sched_local, executed >>
    /\ UNCHANGED << mon_vars, queue_vars, pure_vars, loop_tasks, admin >>

\* generate_post_from_topic comes back in QQBlogGenerateCommand.execute.
CmdGenDone(k) ==
    /\ ~SchedBusy
    /\ cmd[k].pc = "gen"
    /\ \E outcome \in {"raise", "none", "post"}, saved \in BOOLEAN :
        IF outcome = "raise"
        THEN saved /\ CmdGoes(k, Done(cmd[k].kind, "raised"))
        ELSE IF outcome = "none"
        THEN saved /\ CmdGoes(k, Done(cmd[k].kind, "gen_failed"))
        ELSE IF cfg.api_url
        THEN saved /\ CmdGoes(k, Awaiting(cmd[k].kind, "remote"))
        ELSE CmdLocal(k, cmd[k].kind, NoUrl, saved)
    /\ last_poll' = NoPoll
    /\ UNCHANGED << cfg, now_day, now_min, status_file, is_running, sched_pc,
                    sched_local, executed >>
    /\ UNCHANGED << mon_vars, queue_vars, pure_vars, loop_tasks >>
    /\ ChatQuiet

\* _publish_remote comes back in a command's execute.
CmdRemoteDone(k) ==
    /\ ~SchedBusy
    /\ cmd[k].pc = "remote"
    /\ \E resp \in RemoteResponses, saved \in BOOLEAN :
        IF RemoteIdTruthy(PublishRemote(resp))
        THEN /\ saved
             /\ cmd' = [cmd EXCEPT ![k] = Done(cmd[k].kind, "remote")]
             /\ last_pub' = Pub(cmd[k].kind, resp, FALSE, TRUE)
             /\ UNCHANGED posts
        ELSE CmdLocal(k, cmd[k].kind, resp, saved)
    /\ last_poll' = NoPoll
    /\ UNCHANGED << cfg, now_day, now_min, status_file, is_running, sched_pc,
                    sched_local, executed >>
    /\ UNCHANGED << mon_vars, queue_vars, pure_vars, loop_tasks >>
    /\ ChatQuiet

\* is_group_chat of the messages: private chats, or both kinds.
PrivateChats == {FALSE}
AllChats == BOOLEAN

CmdSteps(k, chats) == CmdInvoke(k, chats) \/ CmdGenDone(k) \/ CmdRemoteDone(k)

Next == Tick \/ SchedNext

Spec == Init /\ [][Next]_vars

PubNext == SchedNext \/ \E k \in 1..NumCmds : CmdSteps(k, PrivateChats)

PubSpec == PubInit /\ [][PubNext]_vars

\* The chat commands alone, under every [admin] configuration.
CmdInit ==
    /\ Constructed
    /\ mcfg = DefaultConfig
    /\ MonConstructed
    /\ watched = 0
    /\ cycle_log = NoLog
    /\ loop_tasks = NoTasks
    /\ queue_file = << >>
    /\ max_posts = 1
    /\ QueueIdle
    /\ fn_in = NoCall
    /\ fn_out = NoResult
    /\ admin \in [admin_qqs : SUBSET Users, silent : BOOLEAN]
    /\ cmd_msg = NoMsg
    /\ now_day = 1
    /\ now_min = 1425

CmdNext == \E k \in 1..NumCmds : CmdSteps(k, AllChats)

CmdSpec == CmdInit /\ [][CmdNext]_vars

(* --------------------------------------------------------- CommentMonitor *)
\* `comment_id in self._processed_cache`
InCache(cache, id) == \E j \in DOMAIN cache : cache[j].id = id

\* A plausible slip: the dedup check is left out.
DedupNever(c, cache, id) == FALSE

\* `if dedup.enable_dedup: if comment_id in self._processed_cache: return True`
DedupHit(c, cache, id) == c.enable_dedup /\ InCache(cache, id)

\* A plausible slip: the block-list of visitor names is not looked at.
FilteredButForNames(comment) ==
    \/ \E word \in ForbiddenWords : word # "" /\ word \in comment.content
    \/ AllowedPostIds # {} /\ comment.post_id \notin AllowedPostIds

\* The tests of _should_skip on the comment alone: forbidden words, the
\* allow-list of post ids, the block-list of visitor names.
Filtered(comment) ==
    \/ \E word \in ForbiddenWords : word # "" /\ word \in comment.content
    \/ AllowedPostIds # {} /\ comment.post_id \notin AllowedPostIds
    \/ comment.visitor_name \in BlockedNames

\* `if max_replies > 0: ... if count >= max_replies: return True`
Capped(c, counts, id) == c.max_replies > 0 /\ counts[id] >= c.max_replies

\* _should_skip
ShouldSkip(c, comment, cache, counts) ==
    \/ DedupHit(c, cache, comment.id)
    \/ Filtered(comment)
    \/ Capped(c, counts, comment.id)

\* A plausible slip: the review switch is not looked at.
ReplyDisabledIgnoringReview(c) == ~c.enable_reply

\* `if not reply.enable_reply: mark, continue` and `if security.enable_review:
\* mark, continue`: no reply is generated for the comment.
ReplyDisabled(c) == ~c.enable_reply \/ c.enable_review

\* Which test of _should_skip returned True, in the order they are made.
SkippedAs(c, comment, cache, counts) ==
    IF DedupHit(c, cache, comment.id) THEN "dedup"
    ELSE IF Filtered(comment) THEN "filtered"
    ELSE IF Capped(c, counts, comment.id) THEN "capped"
    ELSE "none"

\* `self._parse_created_at(created_at) or int(time.time())`
CreatedTs(comment, now) == IF comment.created_at = 0 THEN now ELSE comment.created_at

\* A plausible slip: the watermark follows the comment fetched last.
Latest(a, b) == b

\* `max(max_created_ts, created_ts)`
Max2(a, b) == IF a >= b THEN a ELSE b

\* self._processed_cache[comment_id] = time.time(): a new key goes last, a
\* key already there keeps its place.
Stamp(cache, id, now) ==
    IF InCache(cache, id)
    THEN [j \in DOMAIN cache |-> IF cache[j].id = id THEN [id |-> id, ts |-> now] ELSE cache[j]]
    ELSE Append(cache, [id |-> id, ts |-> now])

\* _mark_processed
MarkCache(cache, id, now) == Stamp(cache, id, now)
MarkCounts(counts, id) == [counts EXCEPT ![id] = @ + 1]

\* The entries of a cache that pass a test, in their order.
RECURSIVE Keep(_, _)
Keep(cache, ids) ==
    IF cache = << >> THEN << >>
    ELSE IF Head(cache).id \in ids THEN << Head(cache) >> \o Keep(Tail(cache), ids)
    ELSE Keep(Tail(cache), ids)

\* `expired = [k for k, v in cache.items() if now - v > ttl]`
Expired(cache, now, ttl) == {cache[j].id : j \in {k \in DOMAIN cache : now - cache[k].ts > ttl}}

\* sorted(cache.items(), key=lambda x: x[1]): stable, oldest first.
RECURSIVE InsertByTs(_, _)
InsertByTs(sorted, e) ==
    IF sorted = << >> THEN << e >>
    ELSE IF e.ts < Head(sorted).ts THEN << e >> \o sorted
    ELSE << Head(sorted) >> \o InsertByTs(Tail(sorted), e)

RECURSIVE SortedByTs(_)
SortedByTs(cache) ==
    IF cache = << >> THEN << >>
    ELSE InsertByTs(SortedByTs(SubSeq(cache, 1, Len(cache) - 1)), cache[Len(cache)])

\* The keys _cleanup_cache pops for the size: the first len - cache_size of the sorted items.
Oldest(cache, size) ==
    IF Len(cache) > size
    THEN {SortedByTs(cache)[j].id : j \in 1..(Len(cache) - size)}
    ELSE {}

\* _cleanup_cache, on the cache: the expired keys go, then the oldest beyond cache_size.
Cleanup(cache, now, ttl, size) ==
    LET live == Keep(cache, {cache[j].id : j \in DOMAIN cache} \ Expired(cache, now, ttl))
    IN  Keep(live, {live[j].id : j \in DOMAIN live} \ Oldest(live, size))

\* _cleanup_cache, on the counts: a popped key loses its count too.
CleanupCounts(counts, cache, cleaned) ==
    [i \in DOMAIN counts |->
        IF InCache(cache, i) /\ ~InCache(cleaned, i) THEN 0 ELSE counts[i]]

\* time.time() moves on while the monitor is suspended.
MonTick ==
    /\ mon_pc # "loop"
    /\ mon_now < MaxTime
    /\ mon_now' = mon_now + 1
    /\ mon_last' = "none"
    /\ UNCHANGED << mcfg, running, mon_pc, last_since, processed_cache, processed_counts,
                    consecutive_failures, failed_cycles, mon_left, mon_comment, max_created_ts >>
    /\ UNCHANGED << sched_vars, queue_vars, pure_vars, loop_tasks, chat_vars, watched, posted, cycle_log >>

\* _init_since
InitSince(c, now) == IF c.initial_since > 0 THEN c.initial_since ELSE now

\* start()
MonStart ==
    /\ mon_pc # "loop"
    /\ ~running
    /\ running' = TRUE
    /\ last_since' = InitSince(mcfg, mon_now)
    /\ mon_pc' = "sleep"
    /\ mon_last' = "none"
    /\ UNCHANGED << mcfg, mon_now, processed_cache, processed_counts,
                    consecutive_failures, failed_cycles, mon_left, mon_comment, max_created_ts >>
    /\ UNCHANGED << sched_vars, queue_vars, pure_vars, loop_tasks, chat_vars, watched, posted, cycle_log >>

\* The cycle's locals are gone once the cycle is over.
ForgetCycle ==
    /\ mon_left' = 0
    /\ mon_comment' = NoComment
    /\ max_created_ts' = 0

\* stop(): the loop is cancelled at the await it is suspended in.
MonStop ==
    /\ mon_pc # "loop"
    /\ running
    /\ running' = FALSE
    /\ mon_pc' = Cancelled(mon_pc)
    /\ ForgetCycle
    /\ cycle_log' = LogReturned(cycle_log)
    /\ mon_last' = "none"
    /\ UNCHANGED << mcfg, mon_now, last_since, processed_cache, processed_counts,
                    consecutive_failures, failed_cycles >>
    /\ UNCHANGED << sched_vars, queue_vars, pure_vars, loop_tasks, chat_vars, watched, posted >>

\* A plausible slip: a cycle that returns leaves the count of failures alone.
AfterSuccessKept(failures) == failures
\* `self._consecutive_failures = 0`
AfterSuccess(failures) == 0

\* `if self._consecutive_failures >= 5: await asyncio.sleep(30)`
CoolsDown(failures) == failures >= CooldownAfter

\* A plausible slip: the loop gives up once the failures have come to the
\* threshold.
AfterFailureGivingUp(failures) == IF CoolsDown(failures) THEN "ended" ELSE "sleep"

\* Where _loop goes from the except clause: to the cooldown sleep and then the
\* sleep of the interval, or to the sleep of the interval at once.
AfterFailure(failures) == IF CoolsDown(failures) THEN "cooldown" ELSE "sleep"

\* _check_comments returned: the failures are forgotten, then the sleep.
CycleReturns ==
    /\ consecutive_failures' = AfterSuccess(consecutive_failures)
    /\ failed_cycles' = 0
    /\ mon_pc' = "sleep"
    /\ ForgetCycle
    /\ cycle_log' = LogReturned(cycle_log)
    /\ mon_last' = "returned"

\* _check_comments raised: the failure is counted, then the cooldown if the
\* count has come to the threshold, then the sleep.  No more than `most`
\* failures in a row are followed.
CycleRaisesUpTo(most) ==
    /\ consecutive_failures < most
    /\ consecutive_failures' = consecutive_failures + 1
    /\ failed_cycles' = failed_cycles + 1
    /\ mon_pc' = AfterFailure(consecutive_failures')
    /\ ForgetCycle
    /\ cycle_log' = LogRaised(cycle_log)
    /\ mon_last' = "raised"

CycleRaises == CycleRaisesUpTo(MaxFail)

\* The sleep ends: _check_comments up to `await self._fetch_comments(since)`.
MonCheckBegin ==
    /\ mon_pc = "sleep"
    /\ running
    /\ IF ~mcfg.enable
       THEN /\ CycleReturns
       ELSE /\ mon_pc' = "fetch"
            /\ mon_last' = "none"
            /\ UNCHANGED << consecutive_failures, failed_cycles, mon_left, mon_comment,
                            max_created_ts, cycle_log >>
    /\ UNCHANGED << mcfg, mon_now, running, last_since, processed_cache, processed_counts >>
    /\ UNCHANGED << sched_vars, queue_vars, pure_vars, loop_tasks, chat_vars, watched, posted >>

\* _fetch_comments comes back; `if not comments: return`.
MonFetchDone ==
    /\ mon_pc = "fetch"
    /\ \E n \in FetchLengths :
        IF n = 0
        THEN CycleReturns
        ELSE /\ mon_left' = n
             /\ max_created_ts' = last_since
             /\ mon_pc' = "loop"
             /\ mon_last' = "none"
             /\ UNCHANGED << consecutive_failures, failed_cycles, mon_comment, cycle_log >>
    /\ UNCHANGED << mcfg, mon_now, running, last_since, processed_cache, processed_counts >>
    /\ UNCHANGED << sched_vars, queue_vars, pure_vars, loop_tasks, chat_vars, watched, posted >>

\* One iteration of `for comment in comments` up to its first await.
MonComment ==
    /\ mon_pc = "loop"
    /\ mon_left > 0
    /\ \E comment \in CommentPool :
       /\ mon_left' = mon_left - 1
       /\ cycle_log' = LogSeen(cycle_log, comment, mon_now)
       /\ max_created_ts' = Max2(max_created_ts, CreatedTs(comment, mon_now))
       /\ IF ShouldSkip(mcfg, comment, processed_cache, processed_counts)
          THEN /\ mon_comment' = NoComment
               /\ UNCHANGED << mon_pc, processed_cache, processed_counts >>
          ELSE IF ReplyDisabled(mcfg)
          THEN /\ processed_cache' = MarkCache(processed_cache, comment.id, mon_now)
               /\ processed_counts' = MarkCounts(processed_counts, comment.id)
               /\ mon_comment' = comment
               /\ UNCHANGED mon_pc
          ELSE /\ mon_pc' = "gen"
               /\ mon_comment' = comment
               /\ UNCHANGED << processed_cache, processed_counts >>
       /\ mon_last' = SkippedAs(mcfg, comment, processed_cache, processed_counts)
    /\ UNCHANGED << mcfg, mon_now, running, last_since, consecutive_failures, failed_cycles >>
    /\ UNCHANGED << sched_vars, queue_vars, pure_vars, loop_tasks, chat_vars, watched, posted >>

\* _generate_reply comes back with a reply, with "" or with an exception.
MonGenDone ==
    /\ mon_pc = "gen"
    /\ \E outcome \in {"reply", "empty", "raise"} :
        \/ /\ outcome = "reply"
           /\ mon_pc' = "submit"
           /\ mon_last' = "none"
           /\ UNCHANGED << mon_left, mon_comment, max_created_ts, consecutive_failures,
                           failed_cycles, cycle_log >>
        \/ /\ outcome = "empty"
           /\ mon_pc' = "loop"
           /\ mon_comment' = NoComment
           /\ mon_last' = "gen_failed"
           /\ UNCHANGED << mon_left, max_created_ts, consecutive_failures, failed_cycles,
                           cycle_log >>
        \/ /\ outcome = "raise"
           /\ CycleRaises
    /\ UNCHANGED << mcfg, mon_now, running, last_since, processed_cache, processed_counts >>
    /\ UNCHANGED << sched_vars, queue_vars, pure_vars, loop_tasks, chat_vars, watched, posted >>

\* One more reply was POSTed for comment `id`; the history counts those for
\* the watched comment and stops one past security.max_replies_per_comment.
CountReply(n, id, c) ==
    IF id = watched /\ n <= c.max_replies THEN n + 1 ELSE n

\* A plausible slip: the comment is marked whatever _submit_reply returned.
MarkedWhateverSubmit(success) == TRUE
\* `if success: self._mark_processed(comment_id)`
MarkedAfterSubmit(success) == success

\* _submit_reply comes back with True or False.
MonSubmitDone ==
    /\ mon_pc = "submit"
    /\ \E success \in BOOLEAN :
        /\ processed_cache' =
              IF MarkedAfterSubmit(success)
              THEN MarkCache(processed_cache, mon_comment.id, mon_now)
              ELSE processed_cache
        /\ processed_counts' =
              IF MarkedAfterSubmit(success)
              THEN MarkCounts(processed_counts, mon_comment.id)
              ELSE processed_counts
        /\ mon_last' = IF success THEN "replied" ELSE "submit_failed"
        /\ posted' = IF success THEN CountReply(posted, mon_comment.id, mcfg)
                      ELSE posted
        /\ cycle_log' = IF success THEN LogReplied(cycle_log, mon_comment.id)
                         ELSE cycle_log
    /\ mon_pc' = "loop"
    /\ mon_comment' = NoComment
    /\ UNCHANGED << mcfg, mon_now, running, last_since, consecutive_failures, failed_cycles, mon_left,
                    max_created_ts, watched >>
    /\ UNCHANGED << sched_vars, queue_vars, pure_vars, loop_tasks, chat_vars >>

\* After the last comment: the watermark moves, the cache is cleaned.
MonCycleEnd ==
    /\ mon_pc = "loop"
    /\ mon_left = 0
    /\ last_since' = max_created_ts
    /\ LET cleaned == Cleanup(processed_cache, mon_now, CacheTtl, CacheSize) IN
       /\ processed_cache' = cleaned
       /\ processed_counts' = CleanupCounts(processed_counts, processed_cache, cleaned)
    /\ CycleReturns
    /\ UNCHANGED << mcfg, mon_now, running >>
    /\ UNCHANGED << sched_vars, queue_vars, pure_vars, loop_tasks, chat_vars, watched, posted >>

MonNext ==
    \/ MonTick
    \/ MonStart
    \/ MonStop
    \/ MonCheckBegin
    \/ MonFetchDone
    \/ MonComment
    \/ MonGenDone
    \/ MonSubmitDone
    \/ MonCycleEnd

\* The monitor alone, under each of the configurations, the replies to one of
\* the comments `ids` counted, the history of the cycles starting as `log`.
MonAlone(ids, log) ==
    /\ cfg = [enabled |-> FALSE, api_url |-> FALSE]
    /\ now_day = 1
    /\ now_min = 479
    /\ status_file = NoStatus
    /\ posts = << >>
    /\ is_running = FALSE
    /\ sched_pc = "stopped"
    /\ sched_idx = 0
    /\ status = NoStatus
    /\ status_changed = FALSE
    /\ cur_date = NoDate
    /\ cur_min = 0
    /\ cmd = [k \in 1..NumCmds |-> CmdIdle]
    /\ executed = [i \in TaskIdx |-> [date |-> NoDate, n |-> 0, returned |-> 0]]
    /\ poll_start = NoStatus
    /\ last_poll = NoPoll
    /\ last_pub = NoPub
    /\ mcfg \in MonConfigs
    /\ MonConstructed
    /\ watched \in ids
    /\ cycle_log = log
    /\ loop_tasks = NoTasks
    /\ NoQueue

MonInit == MonAlone({0}, NoLog)

MonSpec == MonInit /\ [][MonNext]_vars

\* _loop alone, a poll cycle taken in one step: the sleep ends and
\* _check_comments returns without a comment to answer, or raises before it
\* has marked one.
LoopCycle ==
    /\ mon_pc = "sleep"
    /\ running
    /\ \/ CycleReturns
       \/ CycleRaisesUpTo(MaxFailures)
    /\ UNCHANGED << mcfg, mon_now, running, last_since, processed_cache, processed_counts >>
    /\ UNCHANGED << sched_vars, queue_vars, pure_vars, loop_tasks, chat_vars, watched, posted >>

\* `await asyncio.sleep(30)` ends; `await asyncio.sleep(max(5, interval))` is next.
LoopCooldownEnd ==
    /\ mon_pc = "cooldown"
    /\ mon_pc' = "sleep"
    /\ mon_last' = "none"
    /\ UNCHANGED << mcfg, mon_now, running, last_since, processed_cache, processed_counts,
                    consecutive_failures, failed_cycles, mon_left, mon_comment,
                    max_created_ts >>
    /\ UNCHANGED << sched_vars, queue_vars, pure_vars, loop_tasks, chat_vars, watched, posted, cycle_log >>

LoopNext ==
    \/ MonTick
    \/ MonStart
    \/ MonStop
    \/ LoopCycle
    \/ LoopCooldownEnd

LoopSpec == MonInit /\ [][LoopNext]_vars

\* The two loops side by side, late on the first day, when every configured
\* task is due.  The event loop runs whatever is ready, every sleep ends and
\* every awaited call comes back or times out: each step of a loop that can
\* be taken is taken in the end.  start() and stop() are the host's to call.
\* The loops share no state, so each is followed while the other is stopped.
LiveNext ==
    \/ ~running /\ SchedStart
    \/ SchedStop
    \/ SchedPollBegin
    \/ SchedTask
    \/ SchedGenDone
    \/ SchedRemoteDone
    \/ SchedPollEnd
    \/ ~is_running /\ MonStart
    \/ MonStop
    \/ LoopCycle
    \/ LoopCooldownEnd

LiveSpec ==
    /\ LateInit
    /\ [][LiveNext]_vars
    /\ WF_vars(SchedPollBegin)
    /\ WF_vars(SchedTask)
    /\ WF_vars(SchedGenDone)
    /\ WF_vars(SchedRemoteDone)
    /\ WF_vars(SchedPollEnd)
    /\ WF_vars(LoopCycle)
    /\ WF_vars(LoopCooldownEnd)

\* The two loops with every await of theirs.  They share no state, so each
\* is followed where the other one has not been started.
SchedNotStarted == ~is_running /\ \A i \in TaskIdx : executed[i].n = 0
MonNotStarted == ~running /\ last_since = 0

StopNext ==
    \/ MonNotStarted /\ SchedStart
    \/ SchedStop
    \/ SchedPollBegin
    \/ SchedTask
    \/ SchedGenDone
    \/ SchedRemoteDone
    \/ SchedPollEnd
    \/ SchedNotStarted /\ MonStart
    \/ MonStop
    \/ MonCheckBegin
    \/ MonFetchDone
    \/ MonComment
    \/ MonGenDone
    \/ MonSubmitDone
    \/ MonCycleEnd

StopSpec == LateInit /\ [][StopNext]_vars

\* The monitor alone, the replies POSTed for one comment counted.
CapInit == MonAlone(1..NumIds, NoLog)

CapSpec == CapInit /\ [][MonNext]_vars

\* The monitor alone under the defaults, what each poll cycle fetched
\* remembered.
WaterInit == MonAlone({0}, SeenLog) /\ mcfg = DefaultConfig

WaterSpec == WaterInit /\ [][MonNext]_vars

\* The monitor alone, what each poll cycle answered remembered: under the
\* defaults and with a second reply allowed by the cap, so that the dedup
\* check alone stands against it.
AbortConfigs ==
    { DefaultConfig,
      [DefaultConfig EXCEPT !.max_replies = 2] }

AbortInit == MonAlone({0}, ReplyLog) /\ mcfg \in AbortConfigs

AbortSpec == AbortInit /\ [][MonNext]_vars

(* ------------------------------------------------------ start() and stop() *)
\* start() and stop() of the two loops with the await of stop() as a step of
\* its own: start() runs from end to end, stop() is suspended in `await
\* self.task` until the task it has cancelled is over, and other calls of
\* start() and stop() run in between.  A task is "live" while its loop can go
\* on polling, "cancelling" once cancel() was called on it and CancelledError
\* waits to be raised at the await it is suspended in, "done" when it is over.
Flag(c) == IF c = "scheduler" THEN is_running ELSE running

SetFlag(c, v) ==
    /\ is_running' = IF c = "scheduler" THEN v ELSE is_running
    /\ running' = IF c = "monitor" THEN v ELSE running

Did(c, what) == << c, what >>

\* A plausible slip: start() does not look at the flag.
NeverRunning(flag) == FALSE

\* `if self.is_running: return`, `if self._running: return`
AlreadyRunning(flag) == flag

\* The scheduler's `if not enabled: return`.
StartDisabled(c) == c = "scheduler" /\ ~cfg.enabled

\* The scheduler's `if not self.is_running: return`; the monitor's stop()
\* has no such test.
StopSkipped(c) == c = "scheduler" /\ ~is_running

\* task.cancel(): a task that is over is left alone.
CancelTask(state) == IF state = "live" THEN "cancelling" ELSE state

LiveTasks(c) ==
    {i \in DOMAIN loop_tasks.made[c] : loop_tasks.made[c][i] = "live"}

\* start(): the flag, _init_since for the monitor, asyncio.create_task.
LoopStart(c) ==
    /\ IF AlreadyRunning(Flag(c))
       THEN /\ loop_tasks' = [loop_tasks EXCEPT !.last = Did(c, "start_returned")]
            /\ UNCHANGED << is_running, running, last_since >>
       ELSE IF StartDisabled(c)
       THEN /\ loop_tasks' = [loop_tasks EXCEPT !.last = Did(c, "start_disabled")]
            /\ UNCHANGED << is_running, running, last_since >>
       ELSE /\ Len(loop_tasks.made[c]) < MaxStarts
            /\ SetFlag(c, TRUE)
            /\ last_since' = IF c = "monitor" THEN InitSince(mcfg, mon_now)
                                               ELSE last_since
            /\ loop_tasks' = [loop_tasks EXCEPT !.made[c] = Append(@, "live"),
                                                !.last = Did(c, "started")]
    /\ UNCHANGED << cfg, now_day, now_min, status_file, posts, sched_pc, sched_local,
                    cmd, executed, last_poll, last_pub >>
    /\ UNCHANGED << mcfg, mon_now, mon_pc, processed_cache, processed_counts,
                    consecutive_failures, failed_cycles, mon_left, mon_comment,
                    max_created_ts, mon_last, watched, posted, cycle_log >>
    /\ UNCHANGED << queue_vars, pure_vars, chat_vars >>

\* stop() up to `await self.task`: the flag, then cancel() on the task the
\* object holds, if it holds one.
LoopStopBegin(c) ==
    /\ LET n == Len(loop_tasks.made[c]) IN
       IF StopSkipped(c)
       THEN /\ loop_tasks' = [loop_tasks EXCEPT !.last = Did(c, "stop_returned")]
            /\ UNCHANGED << is_running, running >>
       ELSE IF n = 0
       THEN /\ SetFlag(c, FALSE)
            /\ loop_tasks' = [loop_tasks EXCEPT !.last = Did(c, "stopped")]
       ELSE /\ SetFlag(c, FALSE)
            /\ loop_tasks' = [loop_tasks EXCEPT !.made[c][n] = CancelTask(@),
                                                !.awaited[c] = @ \cup {n},
                                                !.last = Did(c, "stop_awaits")]
    /\ UNCHANGED << cfg, now_day, now_min, status_file, posts, sched_pc, sched_local,
                    cmd, executed, last_poll, last_pub >>
    /\ UNCHANGED << mcfg, mon_now, mon_pc, last_since, processed_cache, processed_counts,
                    consecutive_failures, failed_cycles, mon_left, mon_comment,
                    max_created_ts, mon_last, watched, posted, cycle_log >>
    /\ UNCHANGED << queue_vars, pure_vars, chat_vars >>

\* What only changes loop_tasks.
OnlyTasks ==
    /\ UNCHANGED << sched_vars, mon_vars, queue_vars, pure_vars, chat_vars >>

\* CancelledError is raised in a cancelled task at the await it is suspended
\* in (or before its first step), and the task is over: `break` in
\* _schedule_loop, no handler in _loop (CancelledError is a BaseException,
\* which no `except Exception` of the loops catches).
LoopCancelled(c, i) ==
    /\ i \in DOMAIN loop_tasks.made[c]
    /\ loop_tasks.made[c][i] = "cancelling"
    /\ loop_tasks' = [loop_tasks EXCEPT !.made[c][i] = "done",
                                        !.last = Did(c, "cancelled")]
    /\ OnlyTasks

\* A task that was not cancelled wakes up: `while self.is_running:`, and one
\* more poll or the end of the loop.
LoopWakes(c, i) ==
    /\ i \in DOMAIN loop_tasks.made[c]
    /\ loop_tasks.made[c][i] = "live"
    /\ loop_tasks' = IF Flag(c)
                     THEN [loop_tasks EXCEPT !.last = Did(c, "polled")]
                     ELSE [loop_tasks EXCEPT !.made[c][i] = "done",
                                             !.last = Did(c, "returned")]
    /\ OnlyTasks

\* `await self.task` comes back, with CancelledError or without: stop() ends.
LoopStopEnd(c, i) ==
    /\ i \in loop_tasks.awaited[c]
    /\ loop_tasks.made[c][i] = "done"
    /\ loop_tasks' = [loop_tasks EXCEPT !.awaited[c] = @ \ {i},
                                        !.last = Did(c, "stopped")]
    /\ OnlyTasks

LifeNext ==
    \/ \E c \in Components : LoopStart(c)
    \/ \E c \in Components : LoopStopBegin(c)
    \/ \E c \in Components, i \in 1..MaxStarts : LoopCancelled(c, i)
    \/ \E c \in Components, i \in 1..MaxStarts : LoopWakes(c, i)
    \/ \E c \in Components, i \in 1..MaxStarts : LoopStopEnd(c, i)

\* Both loops as the plugin's constructor leaves them, schedule.enabled set
\* or not.
LifeSpec == PubInit /\ [][LifeNext]_vars

(* ------------------------------------------------------------ queue task *)
\* The text of a JSON file, token by token.  A token is a sequence of code
\* points: a bracket or a brace, or a string, which begins with its quote.
Quote == 34
Space == 32
Newline == 10
IsSpace(c) == c \in {Space, Newline}
LBracket == << 91 >>
RBracket == << 93 >>
LBrace == << 123 >>
RBrace == << 125 >>

Str(chars) == << Quote >> \o chars
IsStr(tok) == tok # << >> /\ tok[1] = Quote
Chars(tok) == Tail(tok)

\* The keys of a queue item, in the order they are written in.
ItemKeys == << "title", "content", "publish_at" >>

KeyChars(k) ==
    CASE k = "title" -> << 116, 105, 116, 108, 101 >>
      [] k = "content" -> << 99, 111, 110, 116, 101, 110, 116 >>
      [] k = "publish_at" -> << 112, 117, 98, 108, 105, 115, 104, 95, 97, 116 >>

IsKey(chars) == \E j \in DOMAIN ItemKeys : KeyChars(ItemKeys[j]) = chars
KeyOf(chars) == ItemKeys[CHOOSE j \in DOMAIN ItemKeys : KeyChars(ItemKeys[j]) = chars]

\* json.dump of one item: its keys and values between braces.
RECURSIVE DumpFields(_, _)
DumpFields(item, j) ==
    IF j > Len(ItemKeys) THEN << >>
    ELSE IF ItemKeys[j] \in DOMAIN item
    THEN << Str(KeyChars(ItemKeys[j])), Str(item[ItemKeys[j]]) >> \o DumpFields(item, j + 1)
    ELSE DumpFields(item, j + 1)

RECURSIVE DumpItems(_)
DumpItems(items) ==
    IF items = << >> THEN << >>
    ELSE << LBrace >> \o DumpFields(Head(items), 1) \o << RBrace >> \o DumpItems(Tail(items))

\* _save_queue: json.dump(items, f)
SaveQueue(items) == << LBracket >> \o DumpItems(items) \o << RBracket >>

\* json.load: what the parser has read so far is in acc and item; text that is
\* not a list of items ends the parse with bad |-> TRUE.
BadJson == [bad |-> TRUE, items |-> << >>]

RECURSIVE ParseItems(_, _)
RECURSIVE ParseFields(_, _, _)
ParseItems(toks, acc) ==
    IF toks = << >> THEN BadJson
    ELSE IF Head(toks) = RBracket
    THEN IF Tail(toks) = << >> THEN [bad |-> FALSE, items |-> acc] ELSE BadJson
    ELSE IF Head(toks) = LBrace THEN ParseFields(Tail(toks), acc, << >>)
    ELSE BadJson

ParseFields(toks, acc, item) ==
    IF toks = << >> THEN BadJson
    ELSE IF Head(toks) = RBrace THEN ParseItems(Tail(toks), Append(acc, item))
    ELSE IF Len(toks) >= 2 /\ IsStr(toks[1]) /\ IsStr(toks[2]) /\ IsKey(Chars(toks[1]))
    THEN ParseFields(Tail(Tail(toks)), acc,
                     (KeyOf(Chars(toks[1])) :> Chars(toks[2])) @@ item)
    ELSE BadJson

\* _load_queue: [] for a missing file (no text), for text json.load rejects
\* and for JSON that is not a list.
LoadQueue(file) ==
    IF file = << >> \/ Head(file) # LBracket THEN << >>
    ELSE ParseItems(Tail(file), << >>).items

\* str.strip()
RECURSIVE LStrip(_)
LStrip(chars) ==
    IF chars = << >> THEN << >>
    ELSE IF IsSpace(Head(chars)) THEN LStrip(Tail(chars))
    ELSE chars

RECURSIVE RStrip(_)
RStrip(chars) ==
    IF chars = << >> THEN << >>
    ELSE IF IsSpace(chars[Len(chars)]) THEN RStrip(SubSeq(chars, 1, Len(chars) - 1))
    ELSE chars

Strip(chars) == RStrip(LStrip(chars))

\* str(item.get(key, "")).strip()
Field(item, k) == IF k \in DOMAIN item THEN Strip(item[k]) ELSE << >>

\* `if not title or not content` is false: the item is published as it is.
HasText(item) == Field(item, "title") # << >> /\ Field(item, "content") # << >>

\* schedule.timezone, Asia/Shanghai: minutes ahead of UTC.
TzOffset == 480

IsDigit(c) == c \in 48..57

\* "HH:MM" to minutes, -1 when it is not a time of day.
ParseHM(s) ==
    IF /\ Len(s) = 5
       /\ IsDigit(s[1]) /\ IsDigit(s[2]) /\ s[3] = Colon /\ IsDigit(s[4]) /\ IsDigit(s[5])
       /\ (s[1] - Zero) * 10 + (s[2] - Zero) < 24
       /\ (s[4] - Zero) * 10 + (s[5] - Zero) < 60
    THEN ((s[1] - Zero) * 10 + (s[2] - Zero)) * 60 + (s[4] - Zero) * 10 + (s[5] - Zero)
    ELSE -1

NoTime == [aware |-> FALSE, day |-> 0, min |-> 0, offset |-> 0]

\* datetime.fromisoformat: "dTHH:MM" is a naive time on date d, "dTHH:MM+HH:MM"
\* and "dTHH:MM-HH:MM" carry their offset from UTC.  Dates are written as the
\* one digit of the day.  NoTime is None.
FromIsoFormat(s) ==
    IF Len(s) \notin {7, 13} THEN NoTime
    ELSE IF ~IsDigit(s[1]) \/ s[1] = Zero \/ s[2] # 84 \/ ParseHM(SubSeq(s, 3, 7)) < 0 THEN NoTime
    ELSE IF Len(s) = 7
    THEN [aware |-> FALSE, day |-> s[1] - Zero, min |-> ParseHM(SubSeq(s, 3, 7)), offset |-> 0]
    ELSE IF s[8] \notin {43, 45} \/ ParseHM(SubSeq(s, 9, 13)) < 0 THEN NoTime
    ELSE [aware |-> TRUE, day |-> s[1] - Zero, min |-> ParseHM(SubSeq(s, 3, 7)),
          offset |-> IF s[8] = 43 THEN ParseHM(SubSeq(s, 9, 13)) ELSE 0 - ParseHM(SubSeq(s, 9, 13))]

\* _parse_publish_at: a naive time is taken to be in schedule.timezone.
ParsePublishAt(s) ==
    LET dt == FromIsoFormat(s) IN
    IF dt = NoTime THEN NoTime
    ELSE IF dt.aware THEN dt
    ELSE [dt EXCEPT !.aware = TRUE, !.offset = TzOffset]

\* The instant of an aware datetime, in minutes of UTC.
Instant(dt) == dt.day * 1440 + dt.min - dt.offset

\* _get_timezone_now: the local date and minute, in schedule.timezone.
LocalNow(now) == [aware |-> TRUE, day |-> now[1], min |-> now[2], offset |-> TzOffset]

\* A plausible slip: the offset a publish_at carries is dropped.
IsItemDueIgnoringOffset(item, now) ==
    IF "publish_at" \notin DOMAIN item \/ item["publish_at"] = << >> THEN TRUE
    ELSE IF FromIsoFormat(item["publish_at"]) = NoTime THEN TRUE
    ELSE Instant([FromIsoFormat(item["publish_at"]) EXCEPT !.offset = TzOffset])
            <= Instant(LocalNow(now))

\* _is_item_due
IsItemDue(item, now) ==
    IF "publish_at" \notin DOMAIN item \/ item["publish_at"] = << >> THEN TRUE
    ELSE IF ParsePublishAt(item["publish_at"]) = NoTime THEN TRUE
    ELSE Instant(ParsePublishAt(item["publish_at"])) <= Instant(LocalNow(now))

\* A plausible slip: the configured number is used as it is.
CapAsConfigured(n) == n

\* `max_posts = max(1, max_posts)`
Cap(n) == IF n >= 1 THEN n ELSE 1

\* The items a queue file can hold: one ready to go, one whose content is
\* blank, and ready ones to be published at 23:30 local time on day 1, at
\* 08:00 UTC on day 1 ("1T08:00+00:00") and "soon".
Ready == [title |-> << 116 >>, content |-> << 99 >>]
Blank == [title |-> << 116 >>, content |-> << Space >>]
Tonight ==
    [title |-> << 116 >>, content |-> << 99 >>,
     publish_at |-> << 49, 84, 50, 51, 58, 51, 48 >>]
UtcMorning ==
    [title |-> << 116 >>, content |-> << 99 >>,
     publish_at |-> << 49, 84, 48, 56, 58, 48, 48, 43, 48, 48, 58, 48, 48 >>]
Soon ==
    [title |-> << 116 >>, content |-> << 99 >>, publish_at |-> << 115, 111, 111, 110 >>]

ItemPool == {Ready, Blank, Tonight, UtcMorning, Soon}

Queues == UNION {[1..n -> ItemPool] : n \in 0..MaxQueue}

\* The run is over: its locals are gone.
QueueForget ==
    /\ q_pc' = "ended"
    /\ q_queue' = << >>
    /\ q_idx' = 0
    /\ q_remaining' = << >>
    /\ q_count' = 0
    /\ q_now' = << NoDate, 0 >>

\* _execute_task calls _process_queue_task: up to the for loop.
QueueRunBegin ==
    /\ q_pc = "idle"
    /\ q_start' = queue_file
    /\ q_made' = {}
    /\ q_done' = {}
    /\ IF LoadQueue(queue_file) = << >>
       THEN /\ q_last' = "returned"
            /\ q_pc' = "ended"
            /\ UNCHANGED << q_queue, q_idx, q_remaining, q_count, q_now >>
       ELSE /\ q_pc' = "items"
            /\ q_queue' = LoadQueue(queue_file)
            /\ q_idx' = 1
            /\ q_remaining' = << >>
            /\ q_count' = 0
            /\ q_now' = << now_day, now_min >>
            /\ q_last' = "none"
    /\ last_poll' = NoPoll
    /\ last_pub' = NoPub
    /\ UNCHANGED << cfg, now_day, now_min, status_file, posts, is_running, sched_pc,
                    sched_local, cmd, executed >>
    /\ UNCHANGED << queue_file, max_posts >>
    /\ UNCHANGED << mon_vars, pure_vars, loop_tasks, chat_vars >>

\* `remaining.append(item); continue`
QueueRetain ==
    /\ q_remaining' = Append(q_remaining, q_queue[q_idx])
    /\ q_idx' = q_idx + 1
    /\ q_pc' = "items"
    /\ UNCHANGED << q_count, q_made, q_done >>

\* _publish_content came back: the item is counted, or kept for another run.
QueuePublished(ok, made) ==
    /\ q_count' = IF ok THEN q_count + 1 ELSE q_count
    /\ q_remaining' = IF ok THEN q_remaining ELSE Append(q_remaining, q_queue[q_idx])
    /\ q_done' = IF ok THEN q_done \cup {q_idx} ELSE q_done
    /\ q_made' = IF made THEN q_made \cup {q_idx} ELSE q_made
    /\ q_idx' = q_idx + 1
    /\ q_pc' = "items"

\* `await self._publish_content(title, content)` up to its first await; with
\* no blog_api.url it has none and stores the post at once.
QueuePublish ==
    IF cfg.api_url
    THEN /\ q_pc' = "remote"
         /\ last_pub' = NoPub
         /\ UNCHANGED << posts, q_idx, q_remaining, q_count, q_made, q_done >>
    ELSE \E saved \in BOOLEAN :
         /\ CanSave(saved)
         /\ posts' = LocalPublish(posts, "scheduler", saved)
         /\ last_pub' = Pub("scheduler", NoUrl, saved, saved)
         /\ QueuePublished(saved, saved)

\* One iteration of `for item in queue` up to its first await.
QueueItem ==
    /\ q_pc = "items"
    /\ q_idx \in DOMAIN q_queue
    /\ IF q_count >= Cap(max_posts) \/ ~IsItemDue(q_queue[q_idx], q_now)
       THEN /\ QueueRetain
            /\ last_pub' = NoPub
            /\ UNCHANGED posts
       ELSE IF ~HasText(q_queue[q_idx])
       THEN /\ q_pc' = "gen"
            /\ last_pub' = NoPub
            /\ UNCHANGED << posts, q_idx, q_remaining, q_count, q_made, q_done >>
       ELSE QueuePublish
    /\ last_poll' = NoPoll
    /\ UNCHANGED << cfg, now_day, now_min, status_file, is_running, sched_pc,
                    sched_local, cmd, executed >>
    /\ UNCHANGED << queue_file, max_posts, q_queue, q_now, q_start, q_last >>
    /\ UNCHANGED << mon_vars, pure_vars, loop_tasks, chat_vars >>

\* generate_post_from_messages comes back for an item without title or content.
QueueGenDone ==
    /\ q_pc = "gen"
    /\ \E outcome \in {"raise", "none", "post"} :
        \/ /\ outcome = "raise"
           /\ QueueForget
           /\ q_last' = "raised"
           /\ last_pub' = NoPub
           /\ UNCHANGED << posts, q_made, q_done >>
        \/ /\ outcome = "none"
           /\ q_idx' = q_idx + 1
           /\ q_pc' = "items"
           /\ last_pub' = NoPub
           /\ UNCHANGED << posts, q_queue, q_remaining, q_count, q_now, q_made, q_done,
                           q_last >>
        \/ /\ outcome = "post"
           /\ QueuePublish
           /\ UNCHANGED << q_queue, q_now, q_last >>
    /\ last_poll' = NoPoll
    /\ UNCHANGED << cfg, now_day, now_min, status_file, is_running, sched_pc,
                    sched_local, cmd, executed >>
    /\ UNCHANGED << queue_file, max_posts, q_start >>
    /\ UNCHANGED << mon_vars, pure_vars, loop_tasks, chat_vars >>

\* _publish_remote comes back inside _publish_content.
QueueRemoteDone ==
    /\ q_pc = "remote"
    /\ \E resp \in RemoteResponses, saved \in BOOLEAN :
        IF RemoteIdTruthy(PublishRemote(resp))
        THEN /\ saved
             /\ last_pub' = Pub("scheduler", resp, FALSE, TRUE)
             /\ QueuePublished(TRUE, TRUE)
             /\ UNCHANGED posts
        ELSE /\ CanSave(saved)
             /\ posts' = LocalPublish(posts, "scheduler", saved)
             /\ last_pub' = Pub("scheduler", resp, saved, saved)
             /\ QueuePublished(saved, saved \/ RemoteAccepted(resp))
    /\ last_poll' = NoPoll
    /\ UNCHANGED << cfg, now_day, now_min, status_file, is_running, sched_pc,
                    sched_local, cmd, executed >>
    /\ UNCHANGED << queue_file, max_posts, q_queue, q_now, q_start, q_last >>
    /\ UNCHANGED << mon_vars, pure_vars, loop_tasks, chat_vars >>

\* After the last item: `if len(remaining) != len(queue): self._save_queue(...)`;
\* written = FALSE is _save_queue raising before anything is written.
QueueRunEnd ==
    /\ q_pc = "items"
    /\ q_idx > Len(q_queue)
    /\ \E written \in BOOLEAN :
        /\ Len(q_remaining) = Len(q_queue) => written
        /\ queue_file' = IF Len(q_remaining) # Len(q_queue) /\ written
                         THEN SaveQueue(q_remaining)
                         ELSE queue_file
        /\ q_last' = IF written THEN "returned" ELSE "raised"
    /\ QueueForget
    /\ last_poll' = NoPoll
    /\ last_pub' = NoPub
    /\ UNCHANGED << cfg, now_day, now_min, status_file, posts, is_running, sched_pc,
                    sched_local, cmd, executed >>
    /\ UNCHANGED << max_posts, q_start, q_made, q_done >>
    /\ UNCHANGED << mon_vars, pure_vars, loop_tasks, chat_vars >>

\* The poll that ran the task is over and the scheduler sleeps: what the run
\* did is history no longer.
QueueSleep ==
    /\ q_pc = "ended"
    /\ q_pc' = "idle"
    /\ q_start' = << >>
    /\ q_made' = {}
    /\ q_done' = {}
    /\ q_last' = "none"
    /\ last_poll' = NoPoll
    /\ last_pub' = NoPub
    /\ UNCHANGED << cfg, now_day, now_min, status_file, posts, is_running, sched_pc,
                    sched_local, cmd, executed >>
    /\ UNCHANGED << queue_file, max_posts, q_queue, q_idx, q_remaining, q_count,
                    q_now >>
    /\ UNCHANGED << mon_vars, pure_vars, loop_tasks, chat_vars >>

\* The clock, between two runs: a run reads it once, when it begins.
QueueTick == q_pc = "idle" /\ Tick

QueueNext ==
    \/ QueueTick
    \/ QueueRunBegin
    \/ QueueItem
    \/ QueueGenDone
    \/ QueueRemoteDone
    \/ QueueRunEnd
    \/ QueueSleep

\* The queue task alone, run again and again by the scheduler's polls, over
\* each queue file and with and without a remote blog.
QueueInit ==
    /\ cfg \in [enabled : {FALSE}, api_url : BOOLEAN]
    /\ now_day = 1
    /\ now_min = 479
    /\ status_file = NoStatus
    /\ posts = << >>
    /\ is_running = FALSE
    /\ sched_pc = "stopped"
    /\ sched_idx = 0
    /\ status = NoStatus
    /\ status_changed = FALSE
    /\ cur_date = NoDate
    /\ cur_min = 0
    /\ cmd = [k \in 1..NumCmds |-> CmdIdle]
    /\ executed = [i \in TaskIdx |-> [date |-> NoDate, n |-> 0, returned |-> 0]]
    /\ poll_start = NoStatus
    /\ last_poll = NoPoll
    /\ last_pub = NoPub
    /\ mcfg = DefaultConfig
    /\ MonConstructed
    /\ watched = 0
    /\ cycle_log = NoLog
    /\ loop_tasks = NoTasks
    /\ queue_file \in {SaveQueue(q) : q \in Queues} \cup {<< LBrace, RBrace >>}
    /\ max_posts \in {0, 2}
    /\ QueueIdle
    /\ fn_in = NoCall
    /\ fn_out = NoResult
    /\ admin = [admin_qqs |-> AdminQQs, silent |-> TRUE]
    /\ cmd_msg = NoMsg

QueueSpec == QueueInit /\ [][QueueNext]_vars

(* ------------------------------------------------------ helper functions *)
\* str.splitlines(): the lines of a text, without the line ends; a line end
\* at the very end of the text does not open another line.
RECURSIVE SplitLines(_)
SplitLines(text) ==
    IF text = << >> THEN << >>
    ELSE LET ends == {i \in 1..Len(text) : text[i] = Newline} IN
         IF ends = {} THEN << text >>
         ELSE LET i == CHOOSE e \in ends : \A f \in ends : e <= f IN
              << SubSeq(text, 1, i - 1) >>
                  \o SplitLines(SubSeq(text, i + 1, Len(text)))

StartsWith(line, prefix) ==
    Len(line) >= Len(prefix) /\ SubSeq(line, 1, Len(prefix)) = prefix

\* line.replace(prefix, "", 1) of a line that starts with the prefix: the
\* first occurrence is the one at the start.
ReplaceFirst(line, prefix) == SubSeq(line, Len(prefix) + 1, Len(line))

TitleMarker == << 26631, 39064, 58 >>
BodyMarker == << 27491, 25991, 58 >>

\* One iteration of the loop over the lines; acc is (title, content).
ParseLine(acc, line) ==
    IF StartsWith(line, TitleMarker)
    THEN [acc EXCEPT !.title = Strip(ReplaceFirst(line, TitleMarker))]
    ELSE IF StartsWith(line, BodyMarker)
    THEN [acc EXCEPT !.content = Strip(ReplaceFirst(line, BodyMarker))]
    ELSE IF acc.content = << >> /\ acc.title # << >>
    THEN [acc EXCEPT !.content = Strip(acc.content \o << Newline >> \o line)]
    ELSE acc

RECURSIVE ParseLines(_, _)
ParseLines(acc, lines) ==
    IF lines = << >> THEN acc
    ELSE ParseLines(ParseLine(acc, Head(lines)), Tail(lines))

ParseLlmOutput(text, fallback_title) ==
    IF text = << >> THEN [title |-> fallback_title, content |-> << >>]
    ELSE LET acc == ParseLines([title |-> << >>, content |-> << >>],
                               SplitLines(text))
         IN  [title |-> IF acc.title = << >> THEN fallback_title
                        ELSE acc.title,
              content |-> IF acc.content = << >> THEN Strip(text)
                          ELSE acc.content]

\* The responses of the language model the helper is applied to.
TestTitle == << 27979, 35797 >>
TestBody == << 20869, 23481 >>
LinePool ==
    { TitleMarker \o << Space >> \o TestTitle,
      TitleMarker,
      BodyMarker \o << Space >> \o TestBody,
      BodyMarker,
      << 104, 105 >>,
      << >> }

RECURSIVE JoinLines(_)
JoinLines(lines) ==
    IF lines = << >> THEN << >>
    ELSE IF Len(lines) = 1 THEN lines[1]
    ELSE lines[1] \o << Newline >> \o JoinLines(Tail(lines))

Texts == {JoinLines(ls) : ls \in UNION {[1..n -> LinePool] : n \in 0..MaxLines}}
FallbackTitle == << 102, 98 >>

ParseCalls ==
    [fn : {"_parse_llm_output"}, text : Texts, fallback_title : {FallbackTitle}]

\* generate_post_from_messages and generate_post_from_topic from the call of
\* the language model on: generate_with_model raises, reports a failure, or
\* comes back with a text.
GenerationPaths == {"generate_post_from_messages", "generate_post_from_topic"}

\* fallback_title: f"{date_str} 日记" with the date cut down to its last
\* digit, and the topic.
DiaryTitle == << 49, Space, 26085, 35760 >>
TopicTitle == << 116, 111, 112, 105, 99 >>
FallbackTitleOf(fn) ==
    IF fn = "generate_post_from_messages" THEN DiaryTitle ELSE TopicTitle

\* A plausible slip: the body is not looked at.
NoBodyNever(body) == FALSE
\* `if not body: return None`
NoBody(body) == body = << >>

NoPost == [some |-> FALSE, title |-> << >>, body |-> << >>]

\* The try block of the two functions: None (NoPost), or (title, body).
GeneratePost(fn, llm, text) ==
    IF llm = "raise" THEN NoPost
    ELSE IF llm = "fail" \/ text = << >> THEN NoPost
    ELSE LET r == ParseLlmOutput(text, FallbackTitleOf(fn)) IN
         IF NoBody(r.content) THEN NoPost
         ELSE [some |-> TRUE, title |-> r.title, body |-> r.content]

GenerateCalls == [fn : GenerationPaths, llm : {"raise", "fail", "ok"}, text : Texts]

\* The target length of the two generation paths:
\* random.randint(max(100, base_target - 50), base_target + 50).
Spread == 50
LeastTarget == 100
Lowest(base_target) ==
    IF base_target - Spread > LeastTarget THEN base_target - Spread ELSE LeastTarget
Highest(base_target) == base_target + Spread

\* generation.target_length as configured: the default, values about the
\* places where the lower limit changes over, and small ones.
TargetLengths == {-10, 0, 30, 49, 50, 51, 149, 150, 151, 300}
TargetCalls == [fn : {"target_length"}, base_target : TargetLengths]

\* _publish_remote against one HTTP exchange.  The exchange: whether the POST
\* came back at all, its status, whether the body is a JSON object, and the
\* envelope's code and data.id (ids as in RemoteResponses).
Exchanges ==
    [came_back : BOOLEAN, status_code : {200, 399, 400, 500},
     is_json : BOOLEAN, code : {0, 1}, id : {NoId, TextId, 0, 7}]

\* A plausible slip: status 400 itself passes.
IsHttpErrorAbove(status_code) == status_code > 400
\* `if resp.status_code >= 400`
IsHttpError(status_code) == status_code >= 400

\* The body of the try block: the value returned, or exc for an exception
\* (the POST failing, resp.json() failing, int() of an id that is no number).
Returns(id) == [exc |-> FALSE, id |-> id]
Raises == [exc |-> TRUE, id |-> NoId]
PostAndRead(x) ==
    IF ~x.came_back THEN Raises
    ELSE IF IsHttpError(x.status_code) THEN Returns(NoId)
    ELSE IF ~x.is_json THEN Raises
    ELSE IF x.code # 0 THEN Returns(NoId)
    ELSE IF x.id = NoId THEN Returns(NoId)
    ELSE IF x.id = TextId THEN Raises
    ELSE Returns(x.id)

\* posts: the POSTs issued; caught: `except Exception` was entered.
PublishRemoteHttp(api_url, x) ==
    IF ~api_url THEN [posts |-> 0, caught |-> FALSE, id |-> NoId]
    ELSE LET r == PostAndRead(x) IN
         [posts |-> 1, caught |-> r.exc, id |-> IF r.exc THEN NoId ELSE r.id]

RemoteCalls == [fn : {"_publish_remote"}, api_url : BOOLEAN, x : Exchanges]

\* `current_time_str >= task_time` for a time of day of the clock and a task
\* time written as HH:MM.  The minutes sit on both sides of each place where
\* a digit of HH:MM rolls over.
ClockSamples ==
    {0, 9, 10, 59, 60, 479, 480, 485, 599, 600, 719, 720, 1199, 1200, 1425, 1439}
DueCalls == [fn : {"time_reached"}, min : ClockSamples,
             time : {StrfHM(m) : m \in ClockSamples}]

\* _fetch_comments and _submit_reply against the HTTP exchanges of one call.
\* One attempt: the request fails in transport, raise_for_status() raises on
\* the status, resp.json() or data.get raises on a body that is no JSON
\* object, the envelope has a code other than 0, or the envelope has code 0.
AttemptOutcomes == {"transport_error", "http_error", "bad_body", "code_nonzero", "ok"}

\* `except Exception` is entered: the attempt raised inside the try block.
Caught(outcome) == outcome \in {"transport_error", "http_error", "bad_body"}

\* A plausible slip: one attempt more than blog_api.retry_times.
InRangeInclusive(attempt, retry_times) == attempt <= retry_times
\* `for attempt in range(retry_times)`
InRange(attempt, retry_times) == attempt < retry_times

\* What the call yields after a failure: `return []`, `return False`.
Failed(fn) == IF fn = "_fetch_comments" THEN "empty" ELSE "false"
\* What it yields for an envelope with code 0: data.get("data", []), True.
Succeeded(fn) == IF fn = "_fetch_comments" THEN "data" ELSE "true"

\* The call so far: the requests issued, the sleeps of retry_delay taken, the
\* outcomes another attempt followed, whether the loop ran out of attempts.
NoAttempts == [attempts |-> 0, sleeps |-> 0, retried |-> {}, exhausted |-> FALSE,
               result |-> "none"]

\* The for loop from `attempt` on (counted from 0, as range() does).
RECURSIVE RetryLoop(_, _, _, _, _)
RetryLoop(fn, attempt, retry_times, outcomes, acc) ==
    IF ~InRange(attempt, retry_times)
    THEN [acc EXCEPT !.exhausted = TRUE, !.result = Failed(fn)]
    ELSE LET outcome == outcomes[attempt + 1]
             tried == [acc EXCEPT !.attempts = @ + 1] IN
         IF outcome = "ok" THEN [tried EXCEPT !.result = Succeeded(fn)]
         ELSE IF ~Caught(outcome) THEN [tried EXCEPT !.result = Failed(fn)]
         ELSE RetryLoop(fn, attempt + 1, retry_times, outcomes,
                        [tried EXCEPT !.sleeps = @ + 1,
                                      !.retried = IF InRange(attempt + 1, retry_times)
                                                  THEN @ \cup {outcome} ELSE @])

\* _fetch_comments returns [] at once without a blog_api_url; _submit_reply
\* builds its URL from the empty base, and every request to it fails.
WithRetries(fn, base_url, retry_times, outcomes) ==
    IF fn = "_fetch_comments" /\ ~base_url
    THEN [NoAttempts EXCEPT !.result = Failed(fn)]
    ELSE RetryLoop(fn, 0, retry_times,
                   IF base_url THEN outcomes
                   ELSE [i \in DOMAIN outcomes |-> "transport_error"],
                   NoAttempts)

RetryCalls ==
    [fn : {"_fetch_comments", "_submit_reply"}, base_url : BOOLEAN,
     retry_times : 0..MaxRetry, outcomes : [1..MaxRetry + 1 -> AttemptOutcomes]]

\* _load_status, _load_queue and _load_posts against what is on the disk: no
\* file, a file that cannot be read, text that is no JSON, or JSON whose top
\* level is an object, a list or something else (a string, a number, null).
FileStates == {"missing", "unreadable", "invalid_json", "object", "list", "scalar"}
Loaders == {"_load_status", "_load_queue", "_load_posts"}

\* `return {}`, `return []`
EmptyOf(fn) == IF fn = "_load_status" THEN "empty_map" ELSE "empty_list"

\* What the loader returns: the empty value, or what json.load gave.
\* _load_status returns it as it is; the other two look at its type.
Load(fn, file) ==
    IF file = "missing" THEN EmptyOf(fn)
    ELSE IF file \in {"unreadable", "invalid_json"} THEN EmptyOf(fn)
    ELSE IF fn = "_load_status" THEN file
    ELSE IF file = "list" THEN "list"
    ELSE EmptyOf(fn)

\* `last_run_date = status.get(task_id)` in the poll, for the first task with
\* a time: a dict has .get, a list, a string, a number and None raise
\* AttributeError or TypeError, which ends the poll in the loop's
\* `except Exception`.
PollWith(status_value) ==
    IF status_value \in {"empty_map", "object"} THEN "proceeds" ELSE "raises"

LoadCalls == [fn : Loaders, file : FileStates]

HelperCalls ==
    ParseCalls \cup RemoteCalls \cup DueCalls \cup RetryCalls \cup LoadCalls
        \cup GenerateCalls \cup TargetCalls

CallParseLlmOutput ==
    /\ fn_in.fn = "_parse_llm_output"
    /\ ~fn_out.done
    /\ LET r == ParseLlmOutput(fn_in.text, fn_in.fallback_title) IN
       fn_out' = [done |-> TRUE, title |-> r.title, body |-> r.content]
    /\ UNCHANGED << sched_vars, mon_vars, queue_vars, chat_vars, fn_in, loop_tasks >>

CallPublishRemote ==
    /\ fn_in.fn = "_publish_remote"
    /\ ~fn_out.done
    /\ LET r == PublishRemoteHttp(fn_in.api_url, fn_in.x) IN
       fn_out' = [done |-> TRUE, posts |-> r.posts, caught |-> r.caught,
                  id |-> r.id]
    /\ UNCHANGED << sched_vars, mon_vars, queue_vars, chat_vars, fn_in, loop_tasks >>

CallTimeReached ==
    /\ fn_in.fn = "time_reached"
    /\ ~fn_out.done
    /\ fn_out' = [done |-> TRUE,
                  fires |-> TimeReached(fn_in.min, [time |-> fn_in.time])]
    /\ UNCHANGED << sched_vars, mon_vars, queue_vars, chat_vars, fn_in, loop_tasks >>

CallWithRetries ==
    /\ fn_in.fn \in {"_fetch_comments", "_submit_reply"}
    /\ ~fn_out.done
    /\ LET r == WithRetries(fn_in.fn, fn_in.base_url, fn_in.retry_times,
                            fn_in.outcomes) IN
       fn_out' = [done |-> TRUE, attempts |-> r.attempts, sleeps |-> r.sleeps,
                  retried |-> r.retried, exhausted |-> r.exhausted,
                  result |-> r.result]
    /\ UNCHANGED << sched_vars, mon_vars, queue_vars, chat_vars, fn_in, loop_tasks >>

CallLoad ==
    /\ fn_in.fn \in Loaders
    /\ ~fn_out.done
    /\ LET value == Load(fn_in.fn, fn_in.file) IN
       fn_out' = [done |-> TRUE, value |-> value,
                  poll |-> IF fn_in.fn = "_load_status" THEN PollWith(value)
                           ELSE "none"]
    /\ UNCHANGED << sched_vars, mon_vars, queue_vars, chat_vars, fn_in, loop_tasks >>

CallGenerate ==
    /\ fn_in.fn \in GenerationPaths
    /\ ~fn_out.done
    /\ LET r == GeneratePost(fn_in.fn, fn_in.llm, fn_in.text) IN
       fn_out' = [done |-> TRUE, some |-> r.some, title |-> r.title,
                  body |-> r.body]
    /\ UNCHANGED << sched_vars, mon_vars, queue_vars, chat_vars, fn_in, loop_tasks >>

\* random.randint(a, b) returns some integer from a to b, and raises
\* ValueError when there is none.
CallTargetLength ==
    /\ fn_in.fn = "target_length"
    /\ ~fn_out.done
    /\ LET a == Lowest(fn_in.base_target)
           b == Highest(fn_in.base_target) IN
       IF a > b
       THEN fn_out' = [done |-> TRUE, raised |-> TRUE, value |-> 0]
       ELSE \E value \in a..b :
               fn_out' = [done |-> TRUE, raised |-> FALSE, value |-> value]
    /\ UNCHANGED << sched_vars, mon_vars, queue_vars, chat_vars, fn_in, loop_tasks >>

HelperNext ==
    \/ CallLoad
    \/ CallTargetLength
    \/ CallGenerate
    \/ CallParseLlmOutput
    \/ CallPublishRemote
    \/ CallTimeReached
    \/ CallWithRetries

HelperInit ==
    /\ cfg = [enabled |-> FALSE, api_url |-> FALSE]
    /\ now_day = 1
    /\ now_min = 479
    /\ status_file = NoStatus
    /\ posts = << >>
    /\ is_running = FALSE
    /\ sched_pc = "stopped"
    /\ sched_idx = 0
    /\ status = NoStatus
    /\ status_changed = FALSE
    /\ cur_date = NoDate
    /\ cur_min = 0
    /\ cmd = [k \in 1..NumCmds |-> CmdIdle]
    /\ executed = [i \in TaskIdx |-> [date |-> NoDate, n |-> 0, returned |-> 0]]
    /\ poll_start = NoStatus
    /\ last_poll = NoPoll
    /\ last_pub = NoPub
    /\ mcfg = DefaultConfig
    /\ MonConstructed
    /\ watched = 0
    /\ cycle_log = NoLog
    /\ loop_tasks = NoTasks
    /\ queue_file = << >>
    /\ max_posts = 1
    /\ QueueIdle
    /\ fn_in \in HelperCalls
    /\ fn_out = NoResult
    /\ admin = [admin_qqs |-> AdminQQs, silent |-> TRUE]
    /\ cmd_msg = NoMsg

HelperSpec == HelperInit /\ [][HelperNext]_vars

(* ================================================================ claims *)
InPoll == sched_pc \in {"tasks", "gen", "remote"}
Timed(i) == Tasks[i].time # << >>

\* The largest of a non-empty set of numbers.
SetMax(S) == CHOOSE x \in S : \A y \in S : y <= x
IdsOf(store) == {store[j].id : j \in DOMAIN store}
ExpectedId(store) == IF store = << >> THEN 1 ELSE SetMax(IdsOf(store)) + 1
IdsIncreasing(store) ==
    \A j \in DOMAIN store : \A k \in DOMAIN store : j < k => store[j].id < store[k].id

\* C1: for every configured task and every local date, the task is executed
\* at most once on that date, whatever the polls, the outcomes of the task,
\* the outcome of the status-file write and stop()/start() do.  Stated for the
\* executions that ran to their end: no task has two calls of _execute_task
\* return on one date.
C1_AtMostOncePerDay == \A i \in TaskIdx : executed[i].returned <= 1

\* C2: a poll that loaded the current date for a task's id from the status
\* file never calls _execute_task for that task, and leaves the task's entry
\* alone, in its own status map and in the status file.
C2_PollIdempotent ==
    [][\A i \in TaskIdx :
          (InPoll /\ poll_start[GenerateTaskId(Tasks[i])] = cur_date)
          => /\ executed'[i] = executed[i]
             /\ status_file'[GenerateTaskId(Tasks[i])] = cur_date
             /\ (InPoll' => status'[GenerateTaskId(Tasks[i])] = cur_date)]_vars

\* A poll has gone past a due task that the status file had for today.
C2_Witness ==
    \E i \in TaskIdx :
        /\ sched_pc = "tasks"
        /\ sched_idx > i
        /\ Timed(i)
        /\ TimeReached(cur_min, Tasks[i])
        /\ poll_start[GenerateTaskId(Tasks[i])] = cur_date
        /\ executed[i].date = cur_date
        /\ executed[i].n = 1

\* C3: once a poll at or after a task's time has run to its end on a date,
\* the task has been executed on that date, and once: the first such poll
\* executes it, later polls of that date do not, the next date's does.  As in
\* C1, only the executions that ran to their end count as a second one.
C3_FiresExactlyOncePerDay ==
    \A i \in TaskIdx :
        (last_poll.date # NoDate /\ Timed(i) /\ TimeReached(last_poll.min, Tasks[i]))
        => /\ executed[i].date = last_poll.date
           /\ executed[i].n >= 1
           /\ executed[i].returned <= 1

\* C4: every record appended to the posts store, by the scheduler or by a
\* command, has the id one plus the largest id in the store at that moment,
\* or 1 when the store is empty.
C4_NewIdIsMaxPlusOne ==
    [][posts' # posts
       => \E by \in Writers : posts' = Append(posts, Post(ExpectedId(posts), by))]_vars

\* The store holds the blog's post, one of the scheduler and one of a command.
C4_Witness ==
    /\ Len(posts) >= 3
    /\ \E j \in DOMAIN posts : posts[j].by = "scheduler"
    /\ \E j \in DOMAIN posts : posts[j].by \in {"publish", "generate"}

C6_ExactlyOnePost ==
    last_pub.ok => (RemoteAccepted(last_pub.resp) # last_pub.appended)

\* C7: whatever the interleaving of the scheduler's and the commands'
\* publishes, the store changes by append only: a local publish adds exactly
\* one record after the existing ones, which stay as they were, and the ids
\* stay strictly increasing in array order.
C7_AppendOnly ==
    [][/\ (posts' # posts \/ last_pub'.appended)
          => /\ Len(posts') = Len(posts) + 1
             /\ SubSeq(posts', 1, Len(posts)) = posts
       /\ IdsIncreasing(posts')]_vars

\* A command stored its post while the scheduler, which had stored one
\* before, was waiting for the remote blog to answer its next publish.
C7_Witness ==
    /\ sched_pc = "remote"
    /\ last_pub.appended
    /\ last_pub.who \in {"publish", "generate"}
    /\ \E j \in DOMAIN last_pub.before : last_pub.before[j].by = "scheduler"

\* The step is part of the loop over the fetched comments, not the clean-up
\* that ends the cycle.
InCommentLoop == mon_pc \in {"gen", "submit"} \/ (mon_pc = "loop" /\ mon_left > 0)

\* Every entry of the cache is in the cache after the step, with the
\* timestamp and the reply count it had.
CacheEntriesKept ==
    \A j \in DOMAIN processed_cache :
        /\ \E k \in DOMAIN processed_cache' : processed_cache'[k] = processed_cache[j]
        /\ processed_counts'[processed_cache[j].id] = processed_counts[processed_cache[j].id]

\* No reply is being generated or submitted for a comment that is in the cache.
NoReplyForCached ==
    mon_pc \in {"gen", "submit"} => ~InCache(processed_cache, mon_comment.id)

\* C8, as stated: a comment whose id is in the processed-cache is never
\* processed again: no reply is generated or POSTed for it, and no step of the
\* loop over the fetched comments changes its timestamp or its reply count.
C8_NeverReprocessed ==
    [][ /\ NoReplyForCached'
        /\ InCommentLoop => CacheEntriesKept ]_vars

\* C8, amended: with dedup.enable_dedup on, a comment whose id is in the
\* processed-cache is never processed again: no reply is generated or POSTed
\* for it, and no step of the loop over the fetched comments changes its
\* timestamp or its reply count.
C8_NeverReprocessedWithDedup ==
    [][ mcfg.enable_dedup =>
          /\ NoReplyForCached'
          /\ InCommentLoop => CacheEntriesKept ]_vars

\* A fetched comment was skipped at the dedup check although its reply count
\* is below the cap, and the cache is as it was.
C8_Witness ==
    /\ mon_last = "dedup"
    /\ mcfg.enable_dedup
    /\ mcfg.max_replies = 2
    /\ \E j \in DOMAIN processed_cache : processed_counts[processed_cache[j].id] = 1

\* C9: at the end of every poll cycle that returned, whatever the fetch
\* returned, no entry of the cache is older than the TTL, and the reply-count
\* map has no entry for an id that is not in the cache.
C9_NoExpiredAtCycleEnd ==
    mon_last = "returned" =>
        /\ \A j \in DOMAIN processed_cache : mon_now - processed_cache[j].ts <= CacheTtl
        /\ \A i \in DOMAIN processed_counts :
              processed_counts[i] > 0 => InCache(processed_cache, i)

\* C10: the cache never holds more than dedup.cache_size entries.  The claim
\* is about every reachable state; it is stated here for the states it matters
\* most in, those the monitor rests in between two poll cycles.
C10_SizeNeverExceeds == mon_pc = "sleep" => Len(processed_cache) <= CacheSize

\* C11: the watermark never regresses: whatever a poll cycle fetches and
\* however it ends, and across stop() and start(), _last_since after a step is
\* never smaller than before it.
C11_WatermarkNeverRegresses == [][last_since' >= last_since]_vars

\* What _save_queue writes is read back by _load_queue as it was: the same
\* items, in the same order, with the same fields.
QueueRoundTrips(items) == LoadQueue(SaveQueue(items)) = items

\* C12: a list of queue items saved with _save_queue and loaded with
\* _load_queue comes back as it was, and a queue-task run that returned
\* without a post made for any item leaves the queue file as it was.
C12_QueueRoundTrip ==
    /\ QueueRoundTrips(q_queue)
    /\ QueueRoundTrips(q_remaining)
    /\ (q_last = "returned" /\ q_made = {}) => queue_file = q_start

\* The items of a list whose positions are not in idxs, in their order.
RECURSIVE Without(_, _, _)
Without(items, idxs, j) ==
    IF j > Len(items) THEN << >>
    ELSE IF j \in idxs THEN Without(items, idxs, j + 1)
    ELSE << items[j] >> \o Without(items, idxs, j + 1)

\* C13: after a queue-task run that returned, the queue file holds the items
\* it held before the run but those published in the run (_publish_content
\* returned True for them), in their original order: an item is removed if
\* and only if it was published.
C13_RemovedIffPublished ==
    q_last = "returned"
    => LoadQueue(queue_file) = Without(LoadQueue(q_start), q_done, 1)

Parsed == fn_in.fn = "_parse_llm_output" /\ fn_out.done
HasLine(text, marker) ==
    \E i \in 1..Len(SplitLines(text)) : StartsWith(SplitLines(text)[i], marker)
LastAfter(text, marker) ==
    LET lines == SplitLines(text)
        at == {i \in 1..Len(lines) : StartsWith(lines[i], marker)}
        i == CHOOSE a \in at : \A b \in at : b <= a
    IN  Strip(SubSeq(lines[i], Len(marker) + 1, Len(lines[i])))

\* C14: _parse_llm_output returns the title and the body written after the
\* markers when the response has a line with each marker (the title falling
\* back to the caller's default when none is written), the pair
\* (test title, test body) for the two-line example, and
\* (fallback_title, the whole text stripped) when the response has neither.
C14_ParseLlmOutput ==
    Parsed =>
        /\ fn_in.text = TitleMarker \o << Space >> \o TestTitle \o << Newline >>
                            \o BodyMarker \o << Space >> \o TestBody
              => fn_out.title = TestTitle /\ fn_out.body = TestBody
        /\ HasLine(fn_in.text, TitleMarker) /\ HasLine(fn_in.text, BodyMarker)
              => /\ fn_out.body = LastAfter(fn_in.text, BodyMarker)
                 /\ fn_out.title =
                        IF LastAfter(fn_in.text, TitleMarker) = << >>
                        THEN fn_in.fallback_title
                        ELSE LastAfter(fn_in.text, TitleMarker)
        /\ ~HasLine(fn_in.text, TitleMarker) /\ ~HasLine(fn_in.text, BodyMarker)
              => /\ fn_out.title = fn_in.fallback_title
                 /\ fn_out.body = Strip(fn_in.text)

Invoked == cmd_msg.kind # "none"

\* C15: a /blog publish or /blog generate command of a user who is not in
\* admin.admin_qqs is denied: the generator is not called, nothing is POSTed
\* and posts.json is not written, whatever the allow-list is.
C15_AdminGated ==
    Invoked /\ cmd_msg.user \notin admin.admin_qqs
        => cmd_msg.went = "denied" /\ last_pub = NoPub

\* C16: a denied command sends no message exactly when it came from a group
\* chat and admin.silent_when_no_permission_in_group is set, and exactly one
\* denial message otherwise; it returns failure and schedules no deletion of
\* the command message.
C16_DenialSilentOrExplicit ==
    cmd_msg.went = "denied" =>
        /\ cmd_msg.sent = 0 <=> (cmd_msg.group /\ admin.silent)
        /\ cmd_msg.sent \in {0, 1}
        /\ ~cmd_msg.deletion
        /\ \E k \in 1..NumCmds : cmd[k] = Done(cmd_msg.kind, "denied")
        /\ last_pub = NoPub

C16_Witness ==
    /\ cmd_msg.went = "denied"
    /\ cmd_msg.group
    /\ ~admin.silent
    /\ cmd_msg.sent = 1

Published == fn_in.fn = "_publish_remote" /\ fn_out.done

InFuture(item, now) ==
    /\ "publish_at" \in DOMAIN item
    /\ ParsePublishAt(item["publish_at"]) # NoTime
    /\ Instant(ParsePublishAt(item["publish_at"])) > Instant(LocalNow(now))

JustPublished == q_done' \ q_done
InLoop(pc) == pc \in {"items", "gen", "remote"}

\* C18: in one run of the queue task at most max(1, schedule.max_posts_per_run)
\* items are published, the items are gone through in the order of the queue
\* (the one published in a step is the one the loop is at, and the loop only
\* moves forward), and no item is published whose publish_at lies after the
\* time the run read when it began.
C18_CapOrderDue ==
    [][ /\ Cardinality(q_done') <= SetMax({1, max_posts})
        /\ JustPublished \subseteq {q_idx}
        /\ \A i \in JustPublished : ~InFuture(q_queue[i], q_now)
        /\ InLoop(q_pc) /\ InLoop(q_pc') => q_idx' \in {q_idx, q_idx + 1}
      ]_vars

\* A run that has published as many items as it may, with an item left that
\* is due.
C18_Witness ==
    /\ q_pc = "items"
    /\ Cardinality(q_done) = SetMax({1, max_posts})
    /\ q_idx \in DOMAIN q_queue
    /\ ~InFuture(q_queue[q_idx], q_now)

Compared == fn_in.fn = "time_reached" /\ fn_out.done

\* C19: for a clock time and a task time written as HH:MM, the comparison of
\* the two strings the scheduler makes says the task is due exactly when the
\* clock time is not earlier than the task time, so that no task runs at a
\* poll before its time.
C19_LexicographicIsChronological ==
    Compared => (fn_out.fires <=> fn_in.min >= ParseHM(fn_in.time))

\* 10:00 against a task at 09:59: every digit but the first is smaller.
C19_Witness ==
    /\ Compared
    /\ fn_in.min = 600
    /\ ParseHM(fn_in.time) = 599
    /\ fn_out.fires

JustMarked(id) == processed_counts'[id] > processed_counts[id]
ReplyPosted(id) == mon_pc = "submit" /\ mon_comment.id = id /\ mon_last' = "replied"
ReplyFailed == (mon_pc = "gen" /\ mon_pc' # "submit") \/ mon_last' = "submit_failed"
CacheAndCountsKept ==
    processed_cache' = processed_cache /\ processed_counts' = processed_counts

\* C20: a comment is marked processed only by the step in which the POST of a
\* reply to it came back successful, and a failed generation or a failed
\* submit leaves the cache and the reply counts as they were.
C20_MarkedOnlyAfterReply ==
    [][ /\ \A id \in 1..NumIds : JustMarked(id) => ReplyPosted(id)
        /\ ReplyFailed => CacheAndCountsKept
      ]_vars

\* C20, with the two cases the loop marks a comment without replying: a
\* comment that is not skipped is also marked, with no reply, when
\* reply.enable_reply is off or security.enable_review is on.
C20_MarkedAfterReplyOrUnanswered ==
    [][ /\ \A id \in 1..NumIds :
             JustMarked(id) =>
                \/ ReplyPosted(id)
                \/ mon_pc = "loop" /\ (~mcfg.enable_reply \/ mcfg.enable_review)
        /\ ReplyFailed => CacheAndCountsKept
      ]_vars

C20_Witness ==
    /\ mon_last = "replied"
    /\ \E id \in 1..NumIds : processed_counts[id] = 1 /\ InCache(processed_cache, id)

\* The comment holds a forbidden word, is on a post outside the allow-list
\* (when there is one) or is from a blocked visitor.
MatchesSkipPredicate(comment) ==
    \/ comment.content \cap ForbiddenWords # {}
    \/ AllowedPostIds # {} /\ comment.post_id \notin AllowedPostIds
    \/ comment.visitor_name \in BlockedNames

\* C21: the comment a reply is being generated or POSTed for, and the comment
\* the loop has just marked processed, matches none of the skip predicates:
\* forbidden word, post outside the allow-list, blocked visitor.
C21_FilteredNeverActedOn ==
    mon_comment # NoComment => ~MatchesSkipPredicate(mon_comment)

\* The loop has just skipped such a comment, and is not acting on it.
C21_Witness ==
    /\ mon_last = "filtered"
    /\ mon_pc = "loop"
    /\ mon_comment = NoComment

\* C22: the replies POSTed for one comment id, over all the poll cycles of the
\* monitor, never number more than security.max_replies_per_comment when that
\* is greater than 0.
C22_ReplyCap ==
    mcfg.max_replies > 0 => posted <= mcfg.max_replies

\* The loop is waiting for the LLM or for the POST of a reply.
Replying == mon_pc \in {"gen", "submit"}

\* The last step was the LLM call or the POST of a reply coming back.
JustReplied == mon_last \in {"gen_failed", "replied", "submit_failed"}

\* C23: a reply is being generated or POSTed, or just was, only with
\* reply.enable_reply on and security.enable_review off, and while one is
\* awaited the comment is one _should_skip does not skip; with auto-reply off
\* or review on there is never an LLM call or a POST.
C23_ReplyOnlyWhenEnabled ==
    /\ Replying \/ JustReplied => mcfg.enable_reply /\ ~mcfg.enable_review
    /\ Replying =>
          /\ mon_comment # NoComment
          /\ ~ShouldSkip(mcfg, mon_comment, processed_cache, processed_counts)

\* A reply was POSTed, auto-reply on and review off.
C23_Witness ==
    /\ mon_last = "replied"
    /\ mcfg.enable_reply
    /\ ~mcfg.enable_review

Retried == fn_in.fn \in {"_fetch_comments", "_submit_reply"} /\ fn_out.done

\* What the call does apart from when it retries: at most retry_times
\* requests, one sleep of retry_delay before every further request, a value
\* returned, and the failure value once the attempts are used up.
RetryBounded ==
    /\ fn_out.attempts <= fn_in.retry_times
    /\ fn_out.sleeps >= fn_out.attempts - 1
    /\ fn_out.sleeps <= fn_out.attempts
    /\ fn_out.result \in {Failed(fn_in.fn), Succeeded(fn_in.fn)}
    /\ fn_out.exhausted => fn_out.result = Failed(fn_in.fn)

\* C24: a call of _fetch_comments or _submit_reply makes at most
\* blog_api.retry_times requests, makes another one only after a transport
\* failure or an HTTP error status, sleeps retry_delay between two requests,
\* ends by returning, and yields [] or False once the attempts are used up.
C24_RetryPolicy ==
    Retried =>
        /\ RetryBounded
        /\ fn_out.retried \subseteq {"transport_error", "http_error"}

\* C24, amended: as above, but another request is made after every attempt
\* that raised, a body that is no JSON object included; an envelope with a
\* code other than 0 ends the call at once.
C24_RetryAfterAnyException ==
    Retried =>
        /\ RetryBounded
        /\ \A o \in fn_out.retried : Caught(o)
        /\ 0 < fn_out.attempts /\ fn_out.attempts < fn_in.retry_times /\ fn_in.base_url =>
              ~Caught(fn_in.outcomes[fn_out.attempts])

\* Every attempt of a call with more than one raised: the call slept after
\* each and returned the failure value.
C24_Witness ==
    /\ Retried
    /\ fn_in.retry_times = MaxRetry
    /\ fn_out.attempts = MaxRetry
    /\ fn_out.exhausted
    /\ fn_out.retried # {}

\* C25: the failure counter of the monitor is the number of poll cycles that
\* raised since the last one that returned, and the cooldown sleep is taken
\* in just those failed cycles that leave the counter at 5 or more.
C25_FailureCounter ==
    /\ consecutive_failures = failed_cycles
    /\ mon_pc = "cooldown" => consecutive_failures >= CooldownAfter
    /\ mon_last = "raised" =>
          (mon_pc = "cooldown" <=> consecutive_failures >= CooldownAfter)

\* A cycle has just failed, the sixth in a row or a later one, and the loop
\* is in the cooldown sleep.
C25_Witness ==
    /\ mon_last = "raised"
    /\ mon_pc = "cooldown"
    /\ consecutive_failures > CooldownAfter

\* C26: each of the two loops goes on polling for ever unless it is stopped:
\* whatever a poll cycle or a task raised, either the loop is found stopped
\* again and again or it begins a poll cycle again and again.
C26_LoopsGoOn ==
    /\ []<>(~running) \/ []<><<LoopCycle>>_vars
    /\ []<>(~is_running) \/ []<><<SchedPollBegin>>_vars

\* The scheduler has gone through a poll in which a task raised, and then
\* the monitor has failed five cycles in a row or more and goes on.
C26_Witness ==
    /\ \E i \in TaskIdx : executed[i].n > executed[i].returned
    /\ running
    /\ consecutive_failures >= CooldownAfter
    /\ mon_last = "raised"

\* Nothing of what the monitor's loop does: no fetch, LLM call or reply comes
\* back, no comment is marked, the watermark stays.
MonQuiet ==
    /\ UNCHANGED << last_since, processed_cache, processed_counts,
                    consecutive_failures, posted >>
    /\ mon_pc' = "stopped"
    /\ mon_last' = "none"

\* Nothing of what the scheduler's loop does: no task is executed, nothing is
\* published, neither file is written.
SchedQuiet ==
    /\ UNCHANGED << status_file, posts, executed >>
    /\ sched_pc' = "stopped"
    /\ last_pub' = NoPub
    /\ last_poll' = NoPoll

\* C27: once stop() has returned the loop is over, at whichever await it was
\* cancelled, and until start() is called again it does nothing: no fetch,
\* LLM call, publish, reply or file write.
C27_StopEndsLoop ==
    [][/\ ~running' => mon_pc' = "stopped"
       /\ ~is_running' => sched_pc' = "stopped"
       /\ ~running /\ ~running' => MonQuiet
       /\ ~is_running /\ ~is_running' => SchedQuiet]_vars

\* stop() has cancelled the scheduler inside its first task of the poll, in
\* the LLM call or in the POST: the task was begun and never came back, the
\* next one was not reached.
C27_Witness ==
    /\ ~is_running
    /\ sched_pc = "stopped"
    /\ executed[1].n = 1
    /\ executed[1].returned = 0
    /\ executed[2].n = 0

Loaded == fn_in.fn \in Loaders /\ fn_out.done

\* The file holds what the loader is there to read: an object for the status
\* file, a list for the queue file and the posts file.
RightShape == fn_in.file = (IF fn_in.fn = "_load_status" THEN "object" ELSE "list")

\* C28: a status, queue or posts file that is missing, unreadable, no JSON or
\* JSON of the wrong shape loads as the empty map or list, and the poll of
\* the scheduler goes on from what _load_status returned.
C28_MalformedLoadsEmpty ==
    Loaded =>
        /\ ~RightShape => fn_out.value = EmptyOf(fn_in.fn)
        /\ fn_in.fn = "_load_status" => fn_out.poll = "proceeds"

\* The language model came back with a text, and the generation is over.
Generated == fn_in.fn \in GenerationPaths /\ fn_in.llm = "ok" /\ fn_out.done

Targeted == fn_in.fn = "target_length" /\ fn_out.done

\* C30: for every configured generation.target_length the target length put
\* into the prompt is computed without an exception and lies within 50 of
\* the configured value.
C30_TargetLengthWithin50 ==
    Targeted =>
        /\ ~fn_out.raised
        /\ fn_in.base_target - Spread <= fn_out.value
        /\ fn_out.value <= fn_in.base_target + Spread


\* The poll stands before task i and is about to call _execute_task for it.
AboutToFire(i) ==
    /\ sched_pc = "tasks"
    /\ sched_idx = i
    /\ ShouldFire(status, Tasks[i], cur_date, cur_min)

\* The poll stands before task i, which was called on the poll's date before.
BackAt(i) ==
    /\ sched_pc = "tasks"
    /\ sched_idx = i
    /\ executed[i].date = cur_date
    /\ executed[i].n >= 1

\* One more call of _execute_task for task i returned in this step.
ReturnedNow(i) == executed'[i].returned > executed[i].returned

\* C31: whenever _execute_task returns without raising, whether or not a post
\* was published, the poll records the task for the current date; a task whose
\* call returned on a date is not called again by any poll of that date; and a
\* task whose calls on a date all raised is left unrecorded and is called
\* again by every following poll of that date.
C31_RecordedIffReturned ==
    /\ [][\A i \in TaskIdx :
             ReturnedNow(i) => /\ status'[GenerateTaskId(Tasks[i])] = cur_date
                               /\ status_changed']_vars
    /\ [](\A i \in TaskIdx :
             (BackAt(i) /\ executed[i].returned >= 1) => ~AboutToFire(i))
    /\ [](\A i \in TaskIdx :
             (BackAt(i) /\ executed[i].returned = 0) => AboutToFire(i))


\* The created_at of the comments a cycle fetched, of those that have one.
StampsOf(log) == {p[1] : p \in {q \in log.seen : q[1] # 0}}

\* The same, the clock standing in where a comment has no created_at.
TimesOf(log) == {IF p[1] = 0 THEN p[2] ELSE p[1] : p \in log.seen}

\* _check_comments returned in this step.
CycleCompleted == mon_last' = "returned"

\* C32: at the end of a poll cycle that completes, the watermark is the
\* maximum of its previous value and the created_at of every comment the
\* cycle fetched, those skipped and those whose reply failed included.
C32_WatermarkIsMaxCreatedAt ==
    [][CycleCompleted
       => last_since' = SetMax({last_since} \cup StampsOf(cycle_log))]_vars

\* C32 as the code has it: a fetched comment whose created_at is missing or
\* cannot be parsed counts with the clock at the time the loop came to it.
C32_WatermarkIsMaxCreatedTs ==
    [][CycleCompleted
       => last_since' = SetMax({last_since} \cup TimesOf(cycle_log))]_vars

\* A cycle has completed and moved the watermark past the clock it was
\* started at, on a comment stamped later, and no comment was ever marked.
C32_Witness ==
    /\ mon_last = "returned"
    /\ last_since > mon_now
    /\ processed_cache = << >>
    /\ \A i \in 1..NumIds : processed_counts[i] = 0


\* The for loop of the poll has gone past its last task.
PollAtEnd == sched_pc = "tasks" /\ sched_idx > Len(Tasks)

\* Task i was due in the poll and the status loaded had no run of it today.
DueInPoll(i) ==
    /\ Timed(i)
    /\ TimeReached(cur_min, Tasks[i])
    /\ poll_start[GenerateTaskId(Tasks[i])] # cur_date

\* With the loop at its end: every call of _execute_task for task i on the
\* poll's date raised, the one of this poll too.
RaisedInPoll(i) ==
    /\ executed[i].date = cur_date
    /\ executed[i].n >= 1
    /\ executed[i].returned = 0

\* With the loop at its end: the one call for task i on the poll's date was
\* made in this poll and returned.
CompletedInPoll(i) ==
    /\ DueInPoll(i)
    /\ executed[i] = [date |-> cur_date, n |-> 1, returned |-> 1]

\* The awaited generation of a task raised in this step.
RaisedNow ==
    /\ sched_pc = "gen"
    /\ sched_pc' \notin {"gen", "remote"}
    /\ is_running'
    /\ executed[sched_idx].returned = 0
    /\ executed' = executed

\* C33: within one poll, an exception raised while a task is executed sends
\* the loop on to the next task with the poll's status map as it was; by the
\* end of such a poll every other due task has been called; and the entries of
\* the tasks that completed in the poll are in the status file when the poll
\* is over.
C33_RaiseDoesNotStopPoll ==
    /\ [][RaisedNow => /\ sched_pc' = "tasks"
                       /\ sched_idx' = sched_idx + 1
                       /\ status' = status
                       /\ status_changed' = status_changed]_vars
    /\ []((PollAtEnd /\ \E i \in TaskIdx : RaisedInPoll(i))
          => \A j \in TaskIdx :
                /\ DueInPoll(j) => executed[j].date = cur_date /\ executed[j].n >= 1
                /\ CompletedInPoll(j) => /\ status[GenerateTaskId(Tasks[j])] = cur_date
                                         /\ status_changed)
    /\ [][(PollAtEnd /\ sched_pc' = "sleep" /\ \E i \in TaskIdx : RaisedInPoll(i))
          => \A j \in TaskIdx :
                CompletedInPoll(j)
                => status_file'[GenerateTaskId(Tasks[j])] = cur_date]_vars


\* _check_comments raised in this step.
CycleAborted == mon_last' = "raised"

\* A reply is being generated or submitted for a comment.
Answering == mon_pc \in {"gen", "submit"}

\* C34: when a poll cycle raises part-way through the fetched comments, the
\* watermark, the cache and the reply counts are as they were before the
\* step (no clean-up is run) and the comments the cycle had replied to are
\* in the cache; they stay there while the next cycle runs, and with dedup
\* enabled the next cycle generates and submits no reply for any of them.
C34_AbortKeepsMarks ==
    /\ [][CycleAborted
          => /\ last_since' = last_since
             /\ processed_cache' = processed_cache
             /\ processed_counts' = processed_counts
             /\ \A id \in cycle_log.replied : InCache(processed_cache', id)]_vars
    /\ [](\A id \in cycle_log.owed : InCache(processed_cache, id))
    /\ []((mcfg.enable_dedup /\ Answering) => mon_comment.id \notin cycle_log.owed)

\* The cycle after one that raised has fetched again a comment that one had
\* replied to, and has skipped it at the dedup check; the watermark is still
\* the one both cycles fetched from.
C34_Witness ==
    /\ mon_pc = "loop"
    /\ mon_last = "dedup"
    /\ cycle_log.owed # {}
    /\ cycle_log.replied = {}
    /\ processed_counts[CHOOSE id \in cycle_log.owed : TRUE] < mcfg.max_replies
    /\ max_created_ts > last_since


\* The task the object holds: the one start() created last.
HeldTask(c) == Len(loop_tasks.made[c])

\* C35: each loop has at most one live task, under any interleaving of the
\* calls of start() and stop(): while the flag is set the one live task is
\* the task the object holds, while it is clear there is none; a scheduler
\* with schedule.enabled false stays stopped with no task; no step creates a
\* task for a loop that is running; and the start() that sets the flag
\* creates one task, the only live one.
C35_OneLiveLoop ==
    /\ [](\A c \in Components :
            /\ Cardinality(LiveTasks(c)) <= 1
            /\ Flag(c) => LiveTasks(c) = {HeldTask(c)}
            /\ ~Flag(c) => LiveTasks(c) = {})
    /\ [](~cfg.enabled => ~is_running /\ loop_tasks.made["scheduler"] = << >>)
    /\ [][\A c \in Components :
            /\ Flag(c) => HeldTask(c)' = HeldTask(c)
            /\ (~Flag(c) /\ Flag(c)')
               => /\ HeldTask(c)' = HeldTask(c) + 1
                  /\ LiveTasks(c)' = {HeldTask(c)'}]_vars

\* start() has run while a stop() was suspended in its await: the task that
\* stop() cancelled is not over yet, and the new one is live.
C35_Witness ==
    \E c \in Components :
        /\ Flag(c)
        /\ loop_tasks.made[c] = << "cancelling", "live" >>
        /\ loop_tasks.awaited[c] = {1}
        /\ loop_tasks.last = Did(c, "started")

====
